---- MODULE Spec2Model ----
(***************************************************************************)
(* Budget and budget-group engine of Spendly (backend/app).                *)
(*                                                                         *)
(* The persistent store is the three tables budget_groups, budgets and     *)
(* expenses; the category tree is read-only.  An endpoint is a function    *)
(* from the store and the request to the store it leaves and the response  *)
(* it gives; its action applies that function to some request and notes in *)
(* `resp` which endpoint answered and how.  Requests that are studied      *)
(* under interleaving are split at their SQL statements and keep their     *)
(* locals in `req`.                                                        *)
(*                                                                         *)
(* Dates are day numbers, money is an integer number of minor units, ids   *)
(* are the positions of the rows in their tables (creation order), and a   *)
(* Python None / SQL NULL is 0.  Decimal arithmetic (28 significant        *)
(* digits) is exact on sums and differences of such amounts; a quotient is *)
(* kept as the fraction num/den, which orders exactly as the Decimal       *)
(* quotient does while numerators and thresholds stay below 10^20.         *)
(***************************************************************************)
EXTENDS Integers, Sequences, FiniteSets, TLC

VARIABLES budget_groups, budgets, expenses, resp, req

vars == <<budget_groups, budgets, expenses, resp, req>>

\* ---------------------------------------------------------------- bounds
MaxDate == 4
MaxGroups == 2
MaxBudgets == 2

None == 0
Users == {1, 2}
Dates == 1..MaxDate
OptDates == {None} \cup Dates

\* An optional request field (exclude_unset): <<>> when absent, <<v>> when set.
Unset == <<>>
Given(v) == <<v>>
OptBool == {Unset, Given(TRUE), Given(FALSE)}

\* ------------------------------------------------------------ categories
\* The category tree of the two users (read-only for this engine):
\* user 1 owns the primary 1 with its subcategory 2 and the soft-deleted
\* primary 3; user 2 owns the primary 4.  `rank` is (sort_order, name).
\* User 3, who sends no request, has the categories of the worked example
\* of generation: the primaries Rent (5) and Groceries (6) and the
\* subcategory Snacks (8) of the soft-deleted primary Food (7).
CategoryIds == {1, 2, 3, 4, 5, 6, 7, 8}

Category(c) ==
    CASE c = 1 -> [user_id |-> 1, parent_id |-> None, is_active |-> TRUE, rank |-> 1]
      [] c = 2 -> [user_id |-> 1, parent_id |-> 1, is_active |-> TRUE, rank |-> 2]
      [] c = 3 -> [user_id |-> 1, parent_id |-> None, is_active |-> FALSE, rank |-> 3]
      [] c = 5 -> [user_id |-> 3, parent_id |-> None, is_active |-> TRUE, rank |-> 5]
      [] c = 6 -> [user_id |-> 3, parent_id |-> None, is_active |-> TRUE, rank |-> 6]
      [] c = 7 -> [user_id |-> 3, parent_id |-> None, is_active |-> FALSE, rank |-> 7]
      [] c = 8 -> [user_id |-> 3, parent_id |-> 7, is_active |-> TRUE, rank |-> 8]
      [] OTHER -> [user_id |-> 2, parent_id |-> None, is_active |-> TRUE, rank |-> 4]

is_primary_category(c) == Category(c).parent_id = None

CategoryScopes == {"primary", "subcategories", "all"}

\* ------------------------------------------------------------- responses
\* What the last request was and how it was answered.
NoResp == [op |-> "none", result |-> "none"]

Answer(op, result) == [op |-> op, result |-> result]

\* ------------------------------------------------------ group overlap guard
\* The filter with strict comparisons: periods that only touch pass it.
overlap_filter_strict(g, start_date, end_date) ==
    \/ (g.start_date < start_date /\ g.end_date > start_date)
    \/ (g.start_date < end_date /\ g.end_date > end_date)
    \/ (g.start_date >= start_date /\ g.end_date <= end_date)

\* The filter without its third case: a row inside the asked period passes it.
overlap_filter_no_containment(g, start_date, end_date) ==
    \/ (g.start_date <= start_date /\ g.end_date >= start_date)
    \/ (g.start_date <= end_date /\ g.end_date >= end_date)

\* The filter of get_overlapping_groups, as the query states it.
overlap_filter(g, start_date, end_date) ==
    \/ (g.start_date <= start_date /\ g.end_date >= start_date)
    \/ (g.start_date <= end_date /\ g.end_date >= end_date)
    \/ (g.start_date >= start_date /\ g.end_date <= end_date)

\* The rows get_overlapping_groups returns, as the set of their ids; the
\* query has no ORDER BY, so query.all() lists them in any order.
get_overlapping_groups(groups, user_id, start_date, end_date, exclude_id) ==
    {g \in DOMAIN groups :
        /\ groups[g].user_id = user_id
        /\ groups[g].is_active
        /\ overlap_filter(groups[g], start_date, end_date)
        /\ (exclude_id # None => g # exclude_id)}

\* ------------------------------------------------------ budget generation
\* The mutant of query_categories that does not look at the scope.
query_categories_any_scope(user_id, category_scope, include_inactive) ==
    {c \in CategoryIds :
        /\ Category(c).user_id = user_id
        /\ (~include_inactive => Category(c).is_active)}

\* The category query of _generate_budgets_for_group (before its ordering).
query_categories(user_id, category_scope, include_inactive) ==
    {c \in CategoryIds :
        /\ Category(c).user_id = user_id
        /\ (~include_inactive => Category(c).is_active)
        /\ (category_scope = "primary" => Category(c).parent_id = None)
        /\ (category_scope = "subcategories" => Category(c).parent_id # None)}

\* order_by(Category.sort_order.asc(), Category.name.asc())
RECURSIVE order_by_rank(_)
order_by_rank(S) ==
    IF S = {} THEN <<>>
    ELSE LET c == CHOOSE x \in S : \A y \in S : Category(x).rank <= Category(y).rank
         IN  <<c>> \o order_by_rank(S \ {c})

\* The mutant of budget_exists that finds no budget.
budget_exists_never(store, user_id, group_id, category_id) == FALSE

\* The `exists` query of the generation loop.  The session is created with
\* autoflush=False, so the query sees the rows of the store, not the
\* budgets the loop has added and not yet committed.
budget_exists(store, user_id, group_id, category_id) ==
    \E b \in DOMAIN store :
        /\ store[b].user_id = user_id
        /\ store[b].budget_group_id = group_id
        /\ store[b].category_id = category_id
        /\ store[b].is_active

\* category_amounts.get(str(cat.id), effective_amount)
category_amount(category_configs, c, effective_amount) ==
    IF c \in DOMAIN category_configs THEN category_configs[c] ELSE effective_amount

\* The mutant of generated_budget that gives the budget the base currency
\* of create_budget in place of the group's.
generated_budget_base_currency(group_id, group, user_id, c, amount) ==
    [user_id |-> user_id, category_id |-> c, budget_group_id |-> group_id,
     amount |-> amount, currency |-> "EUR",
     start_date |-> group.start_date, end_date |-> group.end_date,
     alert_threshold |-> 80, is_active |-> TRUE]

\* The Budget(...) row the generation loop builds for one category.
generated_budget(group_id, group, user_id, c, amount) ==
    [user_id |-> user_id, category_id |-> c, budget_group_id |-> group_id,
     amount |-> amount, currency |-> group.currency,
     start_date |-> group.start_date, end_date |-> group.end_date,
     alert_threshold |-> 80, is_active |-> TRUE]

\* The loop of _generate_budgets_for_group over the ordered categories:
\* the rows it adds, in the order it adds them.
RECURSIVE generate_loop(_, _, _, _, _, _, _)
generate_loop(store, cats, group_id, group, user_id, effective_amount, category_configs) ==
    IF cats = <<>> THEN <<>>
    ELSE LET c == Head(cats)
             rest == generate_loop(store, Tail(cats), group_id, group, user_id,
                                   effective_amount, category_configs)
         IN  IF budget_exists(store, user_id, group_id, c)
             THEN rest
             ELSE <<generated_budget(group_id, group, user_id, c,
                        category_amount(category_configs, c, effective_amount))>> \o rest

\* The test of _generate_budgets_for_group that raises ValueError, after
\* the categories are read and before any budget is built.
generation_raises(default_amount) == default_amount = None \/ default_amount <= 0

\* _generate_budgets_for_group when it does not raise: the rows created
\* (committed together).
generate_budgets_for_group(store, group_id, group, user_id, category_scope, default_amount, include_inactive, category_configs) ==
    generate_loop(store,
                  order_by_rank(query_categories(user_id, category_scope, include_inactive)),
                  group_id, group, user_id, default_amount, category_configs)

\* ------------------------------------------------------- group endpoints
\* The mutant of valid_group_create without validate_default_amount.
valid_group_create_dates_only(start_date, end_date, default_amount) ==
    end_date > start_date

\* The validators of BudgetGroupCreate (end_date after start_date,
\* default_amount > 0); a request that fails them is answered 422 before
\* the endpoint runs.
valid_group_create(start_date, end_date, default_amount) ==
    end_date > start_date /\ default_amount > 0

\* CheckConstraint valid_budget_group_date_range, checked at commit.
valid_budget_group_date_range(g) == g.end_date > g.start_date

\* create_for_user: the row it inserts and commits.
new_budget_group(user_id, start_date, end_date, currency, is_active) ==
    [user_id |-> user_id, start_date |-> start_date, end_date |-> end_date,
     currency |-> currency, is_active |-> is_active]

\* What an endpoint leaves: its answer, the two tables it may write, the
\* rows its overlap check returned (the error names overlapping[0], any of
\* them), and the number of budgets it generated.
Outcome(result, groups, store, overlapping, created) ==
    [result |-> result, budget_groups |-> groups, budgets |-> store,
     overlapping |-> overlapping, created |-> created]

\* The overlap check of create_budget_group.
create_overlap_check(groups, user_id, start_date, end_date) ==
    get_overlapping_groups(groups, user_id, start_date, end_date, None)

\* POST /budget-groups/ : create_budget_group, with create_for_user and the
\* generation it runs when auto_create_budgets is set. create_for_user
\* commits the group before it generates, so a ValueError of the generation
\* leaves the group behind.
create_budget_group(user_id, start_date, end_date, currency, is_active, auto_create_budgets, category_scope, default_amount, include_inactive, category_configs) ==
    LET overlapping == create_overlap_check(budget_groups, user_id, start_date, end_date)
        group_id == Len(budget_groups) + 1
        group == new_budget_group(user_id, start_date, end_date, currency, is_active)
        created == IF auto_create_budgets
                   THEN generate_budgets_for_group(budgets, group_id, group, user_id,
                            category_scope, default_amount, include_inactive, category_configs)
                   ELSE <<>>
    IN  IF ~valid_group_create(start_date, end_date, default_amount)
        THEN Outcome("validation_error", budget_groups, budgets, {}, 0)
        ELSE IF overlapping # {}
        THEN Outcome("overlap", budget_groups, budgets, overlapping, 0)
        ELSE IF auto_create_budgets /\ generation_raises(default_amount)
        THEN Outcome("server_error", Append(budget_groups, group), budgets, {}, 0)
        ELSE Outcome("created", Append(budget_groups, group), budgets \o created,
                     {}, Len(created))

\* CRUDBase.get(db, id) followed by the endpoints' ownership test.
get_owned(table, id, user_id) ==
    id \in DOMAIN table /\ table[id].user_id = user_id

\* CRUDBase.update: every field the request sets is assigned to the row.
crud_update_group(g, start_date, end_date, is_active) ==
    [g EXCEPT !.start_date = IF start_date # None THEN start_date ELSE @,
              !.end_date = IF end_date # None THEN end_date ELSE @,
              !.is_active = IF is_active # Unset THEN is_active[1] ELSE @]

\* The dates update_budget_group passes to its overlap check: the request's,
\* or the row's where the request has none.
update_check_dates(group, start_date, end_date) ==
    [start_date |-> IF start_date # None THEN start_date ELSE group.start_date,
     end_date |-> IF end_date # None THEN end_date ELSE group.end_date]

\* The overlap check of update_budget_group, which excludes the row itself.
update_overlap_check(groups, user_id, budget_group_id, start_date, end_date) ==
    LET dates == update_check_dates(groups[budget_group_id], start_date, end_date)
    IN  get_overlapping_groups(groups, user_id, dates.start_date, dates.end_date,
                               budget_group_id)

\* PUT /budget-groups/{id} : update_budget_group.  The overlap check runs
\* only when the request carries a start or an end date.
update_budget_group(user_id, budget_group_id, start_date, end_date, is_active) ==
    IF ~get_owned(budget_groups, budget_group_id, user_id)
    THEN Outcome("not_found", budget_groups, budgets, {}, 0)
    ELSE LET group == budget_groups[budget_group_id]
             overlapping ==
                 IF start_date # None \/ end_date # None
                 THEN update_overlap_check(budget_groups, user_id, budget_group_id,
                                           start_date, end_date)
                 ELSE {}
             updated == crud_update_group(group, start_date, end_date, is_active)
         IN  IF overlapping # {}
             THEN Outcome("overlap", budget_groups, budgets, overlapping, 0)
             ELSE IF ~valid_budget_group_date_range(updated)
             THEN Outcome("integrity_error", budget_groups, budgets, {}, 0)
             ELSE Outcome("updated", [budget_groups EXCEPT ![budget_group_id] = updated],
                          budgets, {}, 0)

\* DELETE /budget-groups/{id} : delete_budget_group, with CRUDBudgetGroup.deactivate.
delete_budget_group(user_id, budget_group_id) ==
    IF get_owned(budget_groups, budget_group_id, user_id)
    THEN Outcome("deleted", [budget_groups EXCEPT ![budget_group_id].is_active = FALSE],
                 budgets, {}, 0)
    ELSE Outcome("not_found", budget_groups, budgets, {}, 0)

\* A request served: the store becomes what the endpoint leaves.  The
\* tables hold at most MaxGroups and MaxBudgets rows.
Serve(op, outcome) ==
    /\ Len(outcome.budget_groups) <= MaxGroups
    /\ Len(outcome.budgets) <= MaxBudgets
    /\ budget_groups' = outcome.budget_groups
    /\ budgets' = outcome.budgets
    /\ resp' = Answer(op, outcome.result)
    /\ UNCHANGED <<expenses, req>>

\* ------------------------------------------- the budget-group service
\* The requests of the two users against the budget-group endpoints.
NoConfigs == <<>>

\* The requests the group endpoints are driven with.  Here a group is
\* created without budgets (auto_create_budgets false).
GroupCreateRequests ==
    [user_id : Users, start_date : Dates, end_date : Dates, is_active : BOOLEAN,
     auto_create_budgets : {FALSE}, default_amount : {5}]

GroupUpdateRequests ==
    [user_id : Users, id : 1..MaxGroups, start_date : OptDates, end_date : OptDates,
     is_active : OptBool]

GroupDeleteRequests == [user_id : Users, id : 1..MaxGroups]

create_group_outcome(r) ==
    create_budget_group(r.user_id, r.start_date, r.end_date, "EUR", r.is_active,
                        r.auto_create_budgets, "all", r.default_amount, FALSE, NoConfigs)

update_group_outcome(r) ==
    update_budget_group(r.user_id, r.id, r.start_date, r.end_date, r.is_active)

delete_group_outcome(r) == delete_budget_group(r.user_id, r.id)

EmptyStore ==
    /\ budget_groups = <<>>
    /\ budgets = <<>>
    /\ expenses = <<>>
    /\ resp = NoResp
    /\ req = <<>>

Init == EmptyStore

CreateBudgetGroup ==
    \E r \in GroupCreateRequests : Serve("create_budget_group", create_group_outcome(r))

UpdateBudgetGroup ==
    \E r \in GroupUpdateRequests : Serve("update_budget_group", update_group_outcome(r))

DeleteBudgetGroup ==
    \E r \in GroupDeleteRequests : Serve("delete_budget_group", delete_group_outcome(r))

Next == CreateBudgetGroup \/ UpdateBudgetGroup \/ DeleteBudgetGroup

Spec == Init /\ [][Next]_vars

\* ------------------------------- group creation with generated budgets
\* Groups are created, with or without one budget for each active category
\* of their user, and deleted; their dates stay as created.
AutoCreateRequests ==
    [user_id : Users, start_date : Dates, end_date : Dates, is_active : {TRUE},
     auto_create_budgets : BOOLEAN, default_amount : {5}]

CreateWithBudgets ==
    \E r \in AutoCreateRequests : Serve("create_budget_group", create_group_outcome(r))

NextCreate == CreateWithBudgets \/ DeleteBudgetGroup

SpecCreate == Init /\ [][NextCreate]_vars

\* ------------------------------------------------------------ properties
\* Two inclusive periods [s1,e1] and [s2,e2] overlap.
PeriodsOverlap(s1, e1, s2, e2) == s1 <= e2 /\ s2 <= e1

\* The active groups of a user, other than exclude_id, that overlap [s1,e1].
ActiveOverlapping(user_id, s1, e1, exclude_id) ==
    {g \in DOMAIN budget_groups :
        /\ budget_groups[g].user_id = user_id
        /\ budget_groups[g].is_active
        /\ g # exclude_id
        /\ PeriodsOverlap(s1, e1, budget_groups[g].start_date, budget_groups[g].end_date)}

\* C1: no two active budget groups of one user have overlapping periods,
\* whatever sequence of create, update and deactivate requests was served.
NoActiveGroupsOverlap ==
    \A g \in DOMAIN budget_groups :
        budget_groups[g].is_active =>
            ActiveOverlapping(budget_groups[g].user_id, budget_groups[g].start_date,
                              budget_groups[g].end_date, g) = {}

\* C2: a create request whose period overlaps an active group of the same
\* user is answered with the overlap conflict and leaves both tables as
\* they were: no group is added and no budget is generated.
OverlappingCreateRejected ==
    \A r \in AutoCreateRequests :
        (r.start_date < r.end_date
            /\ ActiveOverlapping(r.user_id, r.start_date, r.end_date, None) # {})
        => LET o == create_group_outcome(r)
           IN  /\ o.result = "overlap"
               /\ o.overlapping # {}
               /\ o.budget_groups = budget_groups
               /\ o.budgets = budgets
               /\ o.created = 0

\* C2 witness: an overlapping create has just been rejected while the
\* store holds a group with its generated budgets.
OverlappingCreateWasRejected ==
    /\ resp = Answer("create_budget_group", "overlap")
    /\ budget_groups # <<>>
    /\ budgets # <<>>
    /\ \E r \in AutoCreateRequests :
          r.auto_create_budgets /\ create_group_outcome(r).result = "overlap"

\* The update requests that reach the overlap check of their endpoint.
CheckedUpdates ==
    {r \in GroupUpdateRequests :
        /\ get_owned(budget_groups, r.id, r.user_id)
        /\ (r.start_date # None \/ r.end_date # None)}

UpdateExact(r) ==
    LET dates == update_check_dates(budget_groups[r.id], r.start_date, r.end_date)
    IN  update_overlap_check(budget_groups, r.user_id, r.id, r.start_date, r.end_date)
            = ActiveOverlapping(r.user_id, dates.start_date, dates.end_date, r.id)

CreateExact(r) ==
    create_overlap_check(budget_groups, r.user_id, r.start_date, r.end_date)
        = ActiveOverlapping(r.user_id, r.start_date, r.end_date, None)

\* One stored group with the period [s, e], for the worked cases.
OneGroup(s, e) == <<new_budget_group(1, s, e, "EUR", TRUE)>>

MaxInFlight == 2

\* The racing requests: user 1 creates an active group, or gives a group
\* a period and activates it.  id is None for a create.
RaceRequests ==
    {r \in [op : {"create_budget_group", "update_budget_group"}, user_id : {1},
            id : {None} \cup (1..MaxGroups), start_date : Dates, end_date : Dates,
            is_active : {TRUE}] :
        /\ r.start_date < r.end_date
        /\ (r.op = "create_budget_group") <=> (r.id = None)}

InFlight(r, pc) == [request |-> r, pc |-> pc]

Without(q, i) == SubSeq(q, 1, i - 1) \o SubSeq(q, i + 1, Len(q))

PendingCreates == Cardinality({i \in DOMAIN req : req[i].request.op = "create_budget_group"})

\* A request arrives.  Creates are admitted while the table has room for
\* their rows.
BeginRequest ==
    \E r \in RaceRequests :
        /\ Len(req) < MaxInFlight
        /\ r.op = "create_budget_group" => Len(budget_groups) + PendingCreates < MaxGroups
        /\ req' = Append(req, InFlight(r, "check"))
        /\ UNCHANGED <<budget_groups, budgets, expenses, resp>>

\* The rows the overlap query of a request returns from the committed table.
race_overlap_check(groups, r) ==
    IF r.op = "create_budget_group"
    THEN create_overlap_check(groups, r.user_id, r.start_date, r.end_date)
    ELSE update_overlap_check(groups, r.user_id, r.id, r.start_date, r.end_date)

\* The reads of a request: update_budget_group fetches its row, then both
\* endpoints run get_overlapping_groups and raise if it returns a row.
CheckOverlap ==
    \E i \in DOMAIN req :
        LET r == req[i].request
        IN  /\ req[i].pc = "check"
            /\ IF r.op = "update_budget_group" /\ ~get_owned(budget_groups, r.id, r.user_id)
               THEN /\ resp' = Answer(r.op, "not_found")
                    /\ req' = Without(req, i)
               ELSE IF race_overlap_check(budget_groups, r) # {}
               THEN /\ resp' = Answer(r.op, "overlap")
                    /\ req' = Without(req, i)
               ELSE /\ resp' = resp
                    /\ req' = [req EXCEPT ![i].pc = "write"]
            /\ UNCHANGED <<budget_groups, budgets, expenses>>

\* The write of a request that passed its check: create_for_user inserts
\* and commits, update assigns the request's fields and commits.
WriteGroup ==
    \E i \in DOMAIN req :
        LET r == req[i].request
        IN  /\ req[i].pc = "write"
            /\ IF r.op = "create_budget_group"
               THEN /\ budget_groups' = Append(budget_groups,
                            new_budget_group(r.user_id, r.start_date, r.end_date, "EUR",
                                             r.is_active))
                    /\ resp' = Answer(r.op, "created")
               ELSE LET updated == crud_update_group(budget_groups[r.id], r.start_date,
                                                     r.end_date, Given(r.is_active))
                    IN  IF valid_budget_group_date_range(updated)
                        THEN /\ budget_groups' = [budget_groups EXCEPT ![r.id] = updated]
                             /\ resp' = Answer(r.op, "updated")
                        ELSE /\ budget_groups' = budget_groups
                             /\ resp' = Answer(r.op, "integrity_error")
            /\ req' = Without(req, i)
            /\ UNCHANGED <<budgets, expenses>>

NextRace == BeginRequest \/ CheckOverlap \/ WriteGroup \/ DeleteBudgetGroup

SpecRace == Init /\ [][NextRace]_vars

\* C3: the overlap check and the write are one atomic step: a request that
\* passed its check still passes it when it writes, so of two concurrent
\* requests with overlapping periods at most one is persisted and the
\* stored active groups of a user never overlap.
CheckAndWriteAtomic ==
    /\ \A i \in DOMAIN req :
          req[i].pc = "write" => race_overlap_check(budget_groups, req[i].request) = {}
    /\ \A g, h \in DOMAIN budget_groups :
          (g # h /\ budget_groups[g].is_active /\ budget_groups[h].is_active
              /\ budget_groups[g].user_id = budget_groups[h].user_id)
          => ~PeriodsOverlap(budget_groups[g].start_date, budget_groups[g].end_date,
                             budget_groups[h].start_date, budget_groups[h].end_date)

\* Both racing requests were persisted: two overlapping active groups.
BothRacersPersisted ==
    /\ req = <<>>
    /\ resp.result \in {"created", "updated"}
    /\ \E g, h \in DOMAIN budget_groups :
          /\ g # h /\ budget_groups[g].is_active /\ budget_groups[h].is_active
          /\ budget_groups[g].user_id = budget_groups[h].user_id
          /\ PeriodsOverlap(budget_groups[g].start_date, budget_groups[g].end_date,
                            budget_groups[h].start_date, budget_groups[h].end_date)


\* --------------------------------------------------- the budget service
\* BudgetCreate validators: amount, alert_threshold and end_date.
valid_budget_create(amount, alert_threshold, start_date, end_date) ==
    /\ amount > 0
    /\ alert_threshold > 0 /\ alert_threshold <= 100
    /\ (end_date # None => end_date > start_date)

\* The check constraints of the budgets table (positive_budget_amount as
\* the migration leaves it: zero is allowed) and its foreign key to
\* budget_groups, checked at commit.
budget_constraints(groups, b) ==
    /\ b.amount >= 0
    /\ b.alert_threshold > 0 /\ b.alert_threshold <= 100
    /\ (b.end_date = None \/ b.end_date > b.start_date)
    /\ (b.budget_group_id # None => b.budget_group_id \in DOMAIN groups)

\* CRUDBudget.create_for_user: the row it inserts and commits.
new_budget(user_id, category_id, budget_group_id, amount, start_date, end_date, alert_threshold, is_active) ==
    [user_id |-> user_id, category_id |-> category_id,
     budget_group_id |-> budget_group_id, amount |-> amount, currency |-> "EUR",
     start_date |-> start_date, end_date |-> end_date,
     alert_threshold |-> alert_threshold, is_active |-> is_active]

\* POST /budgets/ : create_budget.  The endpoint hands the request to
\* create_for_user; no query precedes the insert.
create_budget(user_id, category_id, budget_group_id, amount, start_date, end_date, alert_threshold, is_active) ==
    LET b == new_budget(user_id, category_id, budget_group_id, amount, start_date,
                        end_date, alert_threshold, is_active)
    IN  IF ~valid_budget_create(amount, alert_threshold, start_date, end_date)
        THEN Outcome("validation_error", budget_groups, budgets, {}, 0)
        ELSE IF ~budget_constraints(budget_groups, b)
        THEN Outcome("integrity_error", budget_groups, budgets, {}, 0)
        ELSE Outcome("created", budget_groups, Append(budgets, b), {}, 0)

\* CRUDBudget.update: every field the request sets is assigned to the row.
\* A field is Unset or Given(value); Given(None) is an explicit null.
crud_budget_update(b, amount, start_date, end_date, is_active) ==
    [b EXCEPT !.amount = IF amount # Unset THEN amount[1] ELSE @,
              !.start_date = IF start_date # Unset THEN start_date[1] ELSE @,
              !.end_date = IF end_date # Unset THEN end_date[1] ELSE @,
              !.is_active = IF is_active # Unset THEN is_active[1] ELSE @]

\* PUT /budgets/{id} : update_budget.
update_budget(user_id, budget_id, amount, start_date, end_date, is_active) ==
    IF ~get_owned(budgets, budget_id, user_id)
    THEN Outcome("not_found", budget_groups, budgets, {}, 0)
    ELSE LET updated == crud_budget_update(budgets[budget_id], amount, start_date,
                                           end_date, is_active)
         IN  IF updated.start_date = None \/ ~budget_constraints(budget_groups, updated)
             THEN Outcome("integrity_error", budget_groups, budgets, {}, 0)
             ELSE Outcome("updated", budget_groups,
                          [budgets EXCEPT ![budget_id] = updated], {}, 0)

\* DELETE /budgets/{id} : delete_budget, with CRUDBudget.deactivate.
delete_budget(user_id, budget_id) ==
    IF get_owned(budgets, budget_id, user_id)
    THEN Outcome("deleted", budget_groups,
                 [budgets EXCEPT ![budget_id].is_active = FALSE], {}, 0)
    ELSE Outcome("not_found", budget_groups, budgets, {}, 0)

\* ------------------------------------------------------------- expenses
MaxExpenses == 2

\* CRUDExpense.create_for_user: the row it inserts; amount is the column
\* amount_in_base_currency, which the endpoint fills in.
new_expense(user_id, category_id, subcategory_id, expense_date, amount) ==
    [user_id |-> user_id, category_id |-> category_id,
     subcategory_id |-> subcategory_id, expense_date |-> expense_date,
     amount_in_base_currency |-> amount]

\* ------------------------------------------------- spending of a budget
\* The rows get_spent_amount sums for budget b: the user's expenses from
\* the start date on, up to the end date if there is one, and with the
\* budget's category in their category_id column if it has one.
spent_filter(b, e) ==
    /\ e.user_id = b.user_id
    /\ e.expense_date >= b.start_date
    /\ (b.end_date # None => e.expense_date <= b.end_date)
    /\ (b.category_id # None => e.category_id = b.category_id)

\* SUM over the selected rows, in table order; NULL amounts are skipped.
RECURSIVE sum_selected(_, _, _)
sum_selected(b, exps, i) ==
    IF i > Len(exps) THEN 0
    ELSE (IF spent_filter(b, exps[i]) /\ exps[i].amount_in_base_currency # None
          THEN exps[i].amount_in_base_currency ELSE 0)
         + sum_selected(b, exps, i + 1)

get_spent_amount(b, exps) == sum_selected(b, exps, 1)

\* The mutant of get_remaining_amount that clamps at zero.
get_remaining_amount_clamped(b, exps) ==
    IF b.amount > get_spent_amount(b, exps) THEN b.amount - get_spent_amount(b, exps)
    ELSE 0

get_remaining_amount(b, exps) == b.amount - get_spent_amount(b, exps)

\* The mutant of get_percentage_used without the zero-amount case.
get_percentage_used_unguarded(b, exps) ==
    [num |-> get_spent_amount(b, exps) * 100, den |-> b.amount]

\* (spent / amount) * 100, kept as the fraction num/den with den > 0; the
\* percentage is 0 for a zero amount.  On the values used here the Decimal
\* quotient (28 significant digits) compares as the exact fraction does.
get_percentage_used(b, exps) ==
    IF b.amount = 0 THEN [num |-> 0, den |-> 1]
    ELSE [num |-> get_spent_amount(b, exps) * 100, den |-> b.amount]

is_over_budget(b, exps) == get_spent_amount(b, exps) > b.amount

should_alert(b, exps) ==
    LET percentage_used == get_percentage_used(b, exps)
    IN  percentage_used.num >= b.alert_threshold * percentage_used.den

get_status(b, exps) ==
    IF is_over_budget(b, exps) THEN "over_budget"
    ELSE IF should_alert(b, exps) THEN "warning"
    ELSE "on_track"

\* CRUDBudget.get_budget_performance, all its queries answered from the
\* same expense table.
get_budget_performance(b, exps) ==
    [amount |-> b.amount, spent |-> get_spent_amount(b, exps),
     remaining |-> get_remaining_amount(b, exps),
     percentage_used |-> get_percentage_used(b, exps),
     status |-> get_status(b, exps),
     is_over_budget |-> is_over_budget(b, exps),
     should_alert |-> should_alert(b, exps),
     alert_threshold |-> b.alert_threshold]


\* ------------------------------------------ budgets and their spending
\* User 1 creates budgets for no category, a primary category or its
\* subcategory, over [1,2] or from 3 on, and sets their amount to zero;
\* both users record expenses; the performance of a budget is read.
SpendBudgetRequests ==
    [user_id : {1}, category_id : {None, 1, 2}, budget_group_id : {None},
     amount : {2, 4}, period : {<<1, 2>>, <<3, None>>}, alert_threshold : {50},
     is_active : {TRUE}]

SpendUpdateRequests ==
    [user_id : {1}, id : 1..MaxBudgets, amount : {Given(0)}, start_date : {Unset},
     end_date : {Unset}, is_active : {Unset}]

ExpenseRequests ==
    [user_id : {1}, category : {<<None, None>>, <<1, None>>, <<1, 2>>},
     expense_date : {2, 3}, amount : {1, 3}]
    \cup [user_id : {2}, category : {<<1, None>>}, expense_date : {2}, amount : {3}]

PerformanceRequests == [user_id : {1}, id : 1..MaxBudgets]

create_budget_outcome(r) ==
    create_budget(r.user_id, r.category_id, r.budget_group_id, r.amount, r.period[1],
                  r.period[2], r.alert_threshold, r.is_active)

update_budget_outcome(r) ==
    update_budget(r.user_id, r.id, r.amount, r.start_date, r.end_date, r.is_active)

\* POST /expenses/ : create_expense for an expense in the user's currency,
\* whose amount_in_base_currency is its amount.
create_expense(r) ==
    Append(expenses, new_expense(r.user_id, r.category[1], r.category[2],
                                 r.expense_date, r.amount))

\* GET /budgets/{id}/performance : read_budget_performance.
read_budget_performance(r) ==
    IF get_owned(budgets, r.id, r.user_id)
    THEN get_budget_performance(budgets[r.id], expenses).status
    ELSE "not_found"

CreateBudget ==
    \E r \in SpendBudgetRequests : Serve("create_budget", create_budget_outcome(r))

UpdateBudget ==
    \E r \in SpendUpdateRequests : Serve("update_budget", update_budget_outcome(r))

CreateExpense ==
    \E r \in ExpenseRequests :
        /\ Len(expenses) < MaxExpenses
        /\ expenses' = create_expense(r)
        /\ resp' = Answer("create_expense", "created")
        /\ UNCHANGED <<budget_groups, budgets, req>>

ReadBudgetPerformance ==
    \E r \in PerformanceRequests :
        /\ resp' = Answer("read_budget_performance", read_budget_performance(r))
        /\ UNCHANGED <<budget_groups, budgets, expenses, req>>

NextSpend == CreateBudget \/ UpdateBudget \/ CreateExpense \/ ReadBudgetPerformance

SpecSpend == Init /\ [][NextSpend]_vars


\* Two budget periods overlap; a null end stands for no end.
BudgetPeriodsOverlap(s1, e1, s2, e2) ==
    (e2 = None \/ s1 <= e2) /\ (e1 = None \/ s2 <= e1)

\* The active budgets, other than exclude_id, of b's user and b's category
\* scope whose period overlaps b's.
ActiveBudgetsOverlapping(b, exclude_id) ==
    {i \in DOMAIN budgets :
        /\ i # exclude_id
        /\ budgets[i].is_active
        /\ budgets[i].user_id = b.user_id
        /\ budgets[i].category_id = b.category_id
        /\ BudgetPeriodsOverlap(b.start_date, b.end_date,
                                budgets[i].start_date, budgets[i].end_date)}

\* C5: a create or an update of an active budget whose period overlaps
\* another active budget of the same user and category scope is rejected:
\* the budgets table stays as it was.
OverlappingBudgetWriteRejected ==
    /\ \A r \in SpendBudgetRequests :
          LET b == new_budget(r.user_id, r.category_id, r.budget_group_id, r.amount,
                              r.period[1], r.period[2], r.alert_threshold, r.is_active)
          IN  (b.is_active /\ ActiveBudgetsOverlapping(b, None) # {})
              => create_budget_outcome(r).budgets = budgets
    /\ \A r \in SpendUpdateRequests :
          get_owned(budgets, r.id, r.user_id)
          => LET b == crud_budget_update(budgets[r.id], r.amount, r.start_date,
                                         r.end_date, r.is_active)
             IN  (b.is_active /\ ActiveBudgetsOverlapping(b, r.id) # {})
                 => update_budget_outcome(r).budgets = budgets

\* The alert thresholds a budget is classified under.
AlertThresholds == {1, 50, 80, 100}

\* The status the rules give for an amount, a spend and a threshold.
ClassifiedStatus(amount, spent, alert_threshold) ==
    IF spent > amount THEN "over_budget"
    ELSE IF amount # 0 /\ spent * 100 >= alert_threshold * amount THEN "warning"
    ELSE "on_track"

\* C6: the status of every budget, under every alert threshold, is
\* over_budget iff spent > amount, otherwise warning iff the percentage
\* used (spent/amount*100, and 0 for a zero amount) reaches the threshold,
\* otherwise on_track; a zero-amount budget is over_budget when something
\* was spent and on_track when nothing was.
StatusClassified ==
    \A i \in DOMAIN budgets : \A t \in AlertThresholds :
        LET b == [budgets[i] EXCEPT !.alert_threshold = t]
            p == get_budget_performance(b, expenses)
        IN  /\ p.status \in {"on_track", "warning", "over_budget"}
            /\ p.status = ClassifiedStatus(b.amount, p.spent, t)
            /\ (p.status = "over_budget") <=> (p.spent > b.amount)
            /\ (p.status = "over_budget") <=> p.is_over_budget
            /\ b.amount = 0 => /\ p.percentage_used.num = 0
                               /\ p.status = IF p.spent > 0 THEN "over_budget"
                                             ELSE "on_track"

\* C6 witness: the performance of a zero-amount budget with spending was
\* read as over_budget while another budget stands at warning.
ZeroAmountReadOverBudget ==
    /\ resp = Answer("read_budget_performance", "over_budget")
    /\ \E i, j \in DOMAIN budgets :
          /\ budgets[i].amount = 0
          /\ get_spent_amount(budgets[i], expenses) > 0
          /\ get_status(budgets[i], expenses) = "over_budget"
          /\ get_status(budgets[j], expenses) = "warning"

\* What is spent under a budget as the rules describe it: the user's
\* expenses in the period, all of them for a budget without category,
\* those with the category in category_id or subcategory_id for a primary
\* category, those with it in subcategory_id for a subcategory.
CountedUnder(b, e) ==
    /\ e.user_id = b.user_id
    /\ e.expense_date >= b.start_date
    /\ (b.end_date # None => e.expense_date <= b.end_date)
    /\ \/ b.category_id = None
       \/ /\ b.category_id # None
          /\ is_primary_category(b.category_id)
          /\ (e.category_id = b.category_id \/ e.subcategory_id = b.category_id)
       \/ /\ b.category_id # None
          /\ ~is_primary_category(b.category_id)
          /\ e.subcategory_id = b.category_id

RECURSIVE SumCounted(_, _, _)
SumCounted(b, exps, i) ==
    IF i > Len(exps) THEN 0
    ELSE (IF CountedUnder(b, exps[i]) /\ exps[i].amount_in_base_currency # None
          THEN exps[i].amount_in_base_currency ELSE 0)
         + SumCounted(b, exps, i + 1)

\* C7: the spend of a budget includes its category's children: it is the
\* sum of the expenses counted under the budget by the rules above.
SpendIncludesChildren ==
    \A i \in DOMAIN budgets :
        get_spent_amount(budgets[i], expenses) = SumCounted(budgets[i], expenses, 1)

\* C8: the remaining amount reported for a budget is its amount minus the
\* spent amount reported with it, negative when more was spent.
RemainingIsAmountMinusSpent ==
    \A i \in DOMAIN budgets :
        LET p == get_budget_performance(budgets[i], expenses)
        IN  /\ p.remaining = p.amount - p.spent
            /\ p.spent > p.amount => p.remaining < 0

\* C8 witness: the performance of a budget of positive amount was read
\* with more spent than budgeted, and its remaining amount is negative.
NegativeRemainingRead ==
    /\ resp = Answer("read_budget_performance", "over_budget")
    /\ \E i \in DOMAIN budgets :
          LET p == get_budget_performance(budgets[i], expenses)
          IN  p.amount > 0 /\ p.spent > p.amount /\ p.remaining < 0


\* --------------------------- a performance read among expense creations
\* get_budget_performance asks the database for each figure in turn; each
\* query sees the expenses committed when it runs (the engine keeps the
\* default isolation level).  The read in flight is req[1]: its budget, the
\* query it is at, and the figures it has so far.
SnapshotBudgetRequests ==
    [user_id : {1}, category_id : {None}, budget_group_id : {None}, amount : {2, 4},
     period : {<<1, None>>}, alert_threshold : {50}, is_active : {TRUE}]

SnapshotExpenseRequests ==
    [user_id : {1}, category : {<<1, None>>}, expense_date : {2}, amount : {1, 3}]

NoFigures ==
    [spent |-> 0, remaining |-> 0, percentage_used |-> [num |-> 0, den |-> 1],
     status |-> "none", is_over_budget |-> FALSE, should_alert |-> FALSE]

CreateReadBudget ==
    \E r \in SnapshotBudgetRequests : Serve("create_budget", create_budget_outcome(r))

RecordExpense ==
    \E r \in SnapshotExpenseRequests :
        /\ Len(expenses) < MaxExpenses
        /\ expenses' = create_expense(r)
        /\ resp' = Answer("create_expense", "created")
        /\ UNCHANGED <<budget_groups, budgets, req>>

\* read_budget_performance fetches the budget and starts the queries.
BeginPerformance ==
    \E r \in PerformanceRequests :
        /\ req = <<>>
        /\ IF get_owned(budgets, r.id, r.user_id)
           THEN /\ req' = <<[budget |-> budgets[r.id], pc |-> "spent_amount",
                             figures |-> NoFigures]>>
                /\ resp' = resp
           ELSE /\ req' = req
                /\ resp' = Answer("read_budget_performance", "not_found")
        /\ UNCHANGED <<budget_groups, budgets, expenses>>

\* The next query of get_budget_performance, answered from the expenses
\* committed now.  get_status asks twice: is_over_budget, then should_alert.
PerformanceQuery ==
    /\ req # <<>>
    /\ req[1].pc # "return"
    /\ LET b == req[1].budget
           f == req[1].figures
           pc == req[1].pc
           step(figures, next) == <<[req[1] EXCEPT !.figures = figures, !.pc = next]>>
       IN  req' =
             CASE pc = "spent_amount" ->
                    step([f EXCEPT !.spent = get_spent_amount(b, expenses)],
                         "remaining_amount")
               [] pc = "remaining_amount" ->
                    step([f EXCEPT !.remaining = get_remaining_amount(b, expenses)],
                         "percentage_used")
               [] pc = "percentage_used" ->
                    step([f EXCEPT !.percentage_used = get_percentage_used(b, expenses)],
                         "status")
               [] pc = "status" ->
                    IF is_over_budget(b, expenses)
                    THEN step([f EXCEPT !.status = "over_budget"], "is_over_budget")
                    ELSE step(f, "status_alert")
               [] pc = "status_alert" ->
                    step([f EXCEPT !.status = IF should_alert(b, expenses) THEN "warning"
                                               ELSE "on_track"], "is_over_budget")
               [] pc = "is_over_budget" ->
                    step([f EXCEPT !.is_over_budget = is_over_budget(b, expenses)],
                         "should_alert")
               [] pc = "should_alert" ->
                    step([f EXCEPT !.should_alert = should_alert(b, expenses)], "return")
               [] OTHER -> req
    /\ UNCHANGED <<budget_groups, budgets, expenses, resp>>

\* The record is returned.
ReturnPerformance ==
    /\ req # <<>>
    /\ req[1].pc = "return"
    /\ req' = <<>>
    /\ resp' = Answer("read_budget_performance", req[1].figures.status)
    /\ UNCHANGED <<budget_groups, budgets, expenses>>

NextSnapshot ==
    \/ CreateReadBudget
    \/ RecordExpense
    \/ BeginPerformance
    \/ PerformanceQuery
    \/ ReturnPerformance

SpecSnapshot == Init /\ [][NextSnapshot]_vars

\* C9: the figures of a record about to be returned come from one
\* snapshot: remaining, percentage_used and status are the ones that go
\* with the spent amount of the same record.
FiguresFromOneSnapshot ==
    \A i \in DOMAIN req :
        req[i].pc = "return"
        => LET b == req[i].budget
               f == req[i].figures
           IN  /\ f.remaining = b.amount - f.spent
               /\ f.percentage_used.num * b.amount = f.spent * 100 * f.percentage_used.den
               /\ f.status = ClassifiedStatus(b.amount, f.spent, b.alert_threshold)


\* ------------------------------------------------- the group's summary
\* BudgetGroup.budgets: the budgets whose budget_group_id is the group's,
\* loaded in an order the query does not fix; every order is possible.
group_budgets(store, group_id) ==
    LET members == {i \in DOMAIN store : store[i].budget_group_id = group_id}
    IN  {order \in [1..Cardinality(members) -> members] :
            \A a, b \in DOMAIN order : a # b => order[a] # order[b]}

\* The mutant of total_budgeted_amount that counts inactive budgets too.
RECURSIVE total_budgeted_amount_all(_, _)
total_budgeted_amount_all(store, members) ==
    IF members = <<>> THEN 0
    ELSE store[Head(members)].amount + total_budgeted_amount_all(store, Tail(members))

\* sum(budget.amount_decimal for budget in self.budgets if budget.is_active)
RECURSIVE total_budgeted_amount(_, _)
total_budgeted_amount(store, members) ==
    IF members = <<>> THEN 0
    ELSE (IF store[Head(members)].is_active THEN store[Head(members)].amount ELSE 0)
         + total_budgeted_amount(store, Tail(members))

\* The loop of get_total_spent_amount over self.budgets.
RECURSIVE get_total_spent_amount(_, _, _)
get_total_spent_amount(store, members, exps) ==
    IF members = <<>> THEN 0
    ELSE (IF store[Head(members)].is_active
          THEN get_spent_amount(store[Head(members)], exps) ELSE 0)
         + get_total_spent_amount(store, Tail(members), exps)

\* BudgetGroup.get_percentage_used, as the fraction num/den.
group_get_percentage_used(store, members, exps) ==
    IF total_budgeted_amount(store, members) = 0 THEN [num |-> 0, den |-> 1]
    ELSE [num |-> get_total_spent_amount(store, members, exps) * 100,
          den |-> total_budgeted_amount(store, members)]

\* The mutant of BudgetGroup.get_status that warns from 50 percent on.
group_get_status_from_50(store, members, exps) ==
    LET percentage_used == group_get_percentage_used(store, members, exps)
    IN  IF get_total_spent_amount(store, members, exps)
               > total_budgeted_amount(store, members)
        THEN "over_budget"
        ELSE IF percentage_used.num >= 50 * percentage_used.den THEN "warning"
        ELSE "on_track"

\* BudgetGroup.get_status, with its threshold of 80.
group_get_status(store, members, exps) ==
    LET percentage_used == group_get_percentage_used(store, members, exps)
    IN  IF get_total_spent_amount(store, members, exps)
               > total_budgeted_amount(store, members)
        THEN "over_budget"
        ELSE IF percentage_used.num >= 80 * percentage_used.den THEN "warning"
        ELSE "on_track"

\* Category.name. Names are unique per user and parent (the categories
\* endpoint refuses a second one); OTHER is a primary category of user 2
\* that has the name of category 1 of user 1.
category_name(c) ==
    CASE c = 1 -> "Food"
      [] c = 2 -> "Snacks"
      [] c = 3 -> "Transport"
      [] c = 5 -> "Rent"
      [] c = 6 -> "Groceries"
      [] c = 7 -> "Food"
      [] c = 8 -> "Snacks"
      [] OTHER -> "Food"

\* d[k] = v on a dict.
dict_set(d, k, v) == [n \in DOMAIN d \cup {k} |-> IF n = k THEN v ELSE d[n]]

\* The entry get_category_summary makes for a main category it meets first.
new_main_cat(main_category_id, main_category_name) ==
    [categoryId |-> main_category_id, categoryName |-> main_category_name,
     budgeted |-> 0, spent |-> 0, remaining |-> 0,
     total_budgeted |-> 0, total_spent |-> 0, total_remaining |-> 0,
     subcategories |-> <<>>]

\* The entry it makes for a subcategory it meets first.
new_subcat(category_id, subcategory_name) ==
    [categoryId |-> category_id, categoryName |-> subcategory_name,
     budgeted |-> 0, spent |-> 0, remaining |-> 0]

\* The main category name and id of a budget's category: the category's
\* own for a primary one, its parent's otherwise (a category that is not
\* primary has a parent, so the name "Uncategorized" is never used).
main_category_name(c) ==
    IF is_primary_category(c) THEN category_name(c)
    ELSE category_name(Category(c).parent_id)

main_category_id(c) ==
    IF Category(c).parent_id # None THEN Category(c).parent_id ELSE c

\* A main entry after a budget of the subcategory c has been added to the
\* subcategory's entry and to the main entry's totals.
add_subcategory_budget(main_cat, c, amount, spent_amount) ==
    LET subcategory_name == category_name(c)
        subcat == IF subcategory_name \in DOMAIN main_cat.subcategories
                  THEN main_cat.subcategories[subcategory_name]
                  ELSE new_subcat(c, subcategory_name)
        added == [subcat EXCEPT !.budgeted = @ + amount, !.spent = @ + spent_amount]
        done == [added EXCEPT !.remaining = added.budgeted - added.spent]
    IN  [main_cat EXCEPT
            !.subcategories = dict_set(@, subcategory_name, done),
            !.total_budgeted = @ + amount,
            !.total_spent = @ + spent_amount]

\* A main entry after a budget of the main category itself has been added.
add_main_budget(main_cat, amount, spent_amount) ==
    LET added == [main_cat EXCEPT !.budgeted = @ + amount, !.spent = @ + spent_amount]
    IN  [added EXCEPT
            !.remaining = added.budgeted - added.spent,
            !.total_budgeted = @ + amount,
            !.total_spent = @ + spent_amount]

\* The mutant of add_to_category_summary that leaves a subcategory's budget
\* out of the main entry's totals.
add_to_category_summary_own_only(category_summaries, b, spent_amount) ==
    LET name == main_category_name(b.category_id)
        main_cat == IF name \in DOMAIN category_summaries
                    THEN category_summaries[name]
                    ELSE new_main_cat(main_category_id(b.category_id), name)
        added == IF is_primary_category(b.category_id)
                 THEN add_main_budget(main_cat, b.amount, spent_amount)
                 ELSE [main_cat EXCEPT !.subcategories =
                          add_subcategory_budget(main_cat, b.category_id, b.amount,
                                                 spent_amount).subcategories]
    IN  dict_set(category_summaries, name,
                 [added EXCEPT !.total_remaining = added.total_budgeted - added.total_spent])

\* One turn of the loop of get_category_summary, for an active budget that
\* has a category.
add_to_category_summary(category_summaries, b, spent_amount) ==
    LET name == main_category_name(b.category_id)
        main_cat == IF name \in DOMAIN category_summaries
                    THEN category_summaries[name]
                    ELSE new_main_cat(main_category_id(b.category_id), name)
        added == IF is_primary_category(b.category_id)
                 THEN add_main_budget(main_cat, b.amount, spent_amount)
                 ELSE add_subcategory_budget(main_cat, b.category_id, b.amount,
                                             spent_amount)
    IN  dict_set(category_summaries, name,
                 [added EXCEPT !.total_remaining = added.total_budgeted - added.total_spent])

\* The mutant of category_summary_loop that takes budgets with no category
\* for budgets of category 1.
RECURSIVE category_summary_loop_all(_, _, _, _)
category_summary_loop_all(category_summaries, store, members, exps) ==
    IF members = <<>> THEN category_summaries
    ELSE LET b == store[Head(members)]
         IN  IF ~b.is_active
             THEN category_summary_loop_all(category_summaries, store, Tail(members), exps)
             ELSE category_summary_loop_all(
                      add_to_category_summary(
                          category_summaries,
                          IF b.category_id = None THEN [b EXCEPT !.category_id = 1] ELSE b,
                          get_spent_amount(b, exps)),
                      store, Tail(members), exps)

\* The loop of get_category_summary over self.budgets: budgets that are
\* inactive or have no category are passed over.
RECURSIVE category_summary_loop(_, _, _, _)
category_summary_loop(category_summaries, store, members, exps) ==
    IF members = <<>> THEN category_summaries
    ELSE LET b == store[Head(members)]
         IN  IF ~b.is_active \/ b.category_id = None
             THEN category_summary_loop(category_summaries, store, Tail(members), exps)
             ELSE category_summary_loop(
                      add_to_category_summary(category_summaries, b,
                                              get_spent_amount(b, exps)),
                      store, Tail(members), exps)

\* BudgetGroup.get_category_summary, the budgets loaded in the order `members`.
get_category_summary(store, members, exps) ==
    category_summary_loop(<<>>, store, members, exps)

\* The subcategory entry get_budget_group_summary returns.
subcategory_summary(subcat_data) ==
    [categoryId |-> subcat_data.categoryId,
     categoryName |-> subcat_data.categoryName,
     budgeted |-> subcat_data.budgeted,
     spent |-> subcat_data.spent,
     remaining |-> subcat_data.remaining,
     percentage_used |-> IF subcat_data.budgeted > 0
                         THEN [num |-> subcat_data.spent * 100, den |-> subcat_data.budgeted]
                         ELSE [num |-> 0, den |-> 1]]

\* The CategorySummary get_budget_group_summary builds of a main entry. It
\* passes categoryId, categoryName, budgeted, spent, remaining,
\* percentage_used and subcategories, and main_category_budgeted, which is
\* no field of the schema and is dropped; total_budgeted, total_spent,
\* total_remaining and total_percentage_used keep their default, None.
CategorySummary(cat_data) ==
    [categoryId |-> cat_data.categoryId,
     categoryName |-> cat_data.categoryName,
     budgeted |-> cat_data.budgeted,
     spent |-> cat_data.spent,
     remaining |-> cat_data.remaining,
     percentage_used |-> IF cat_data.budgeted > 0
                         THEN [num |-> cat_data.spent * 100, den |-> cat_data.budgeted]
                         ELSE [num |-> 0, den |-> 1],
     total_budgeted |-> Unset,
     total_spent |-> Unset,
     total_remaining |-> Unset,
     total_percentage_used |-> Unset,
     subcategories |-> [n \in DOMAIN cat_data.subcategories |->
                           subcategory_summary(cat_data.subcategories[n])]]

\* The category_summaries of the summary returned.
category_summaries_of(category_summaries_raw) ==
    [cat_name \in DOMAIN category_summaries_raw |->
        CategorySummary(category_summaries_raw[cat_name])]

\* get_budget_group_summary for a group get_with_budgets found, its
\* budgets loaded in the order `members`.
get_budget_group_summary(store, members, exps) ==
    [total_budgeted |-> total_budgeted_amount(store, members),
     total_spent |-> get_total_spent_amount(store, members, exps),
     total_remaining |-> total_budgeted_amount(store, members)
                         - get_total_spent_amount(store, members, exps),
     percentage_used |-> group_get_percentage_used(store, members, exps),
     status |-> group_get_status(store, members, exps),
     budget_count |-> Cardinality({i \in DOMAIN members : store[members[i]].is_active}),
     category_summaries |->
         category_summaries_of(get_category_summary(store, members, exps))]

\* User 1 creates a group over [1,3], with or without a budget for each of
\* the user's categories, adds budgets to it or outside it (on no category,
\* on the user's own categories, or on the category of user 2 that
\* create_budget does not refuse), deactivates budgets, records expenses,
\* and reads the group's summary.
SummaryGroupRequests ==
    [user_id : {1}, start_date : {1}, end_date : {3}, is_active : {TRUE},
     auto_create_budgets : BOOLEAN, default_amount : {5}]

SummaryBudgetRequests ==
    [user_id : {1}, category_id : {None, 1, 2, 4}, budget_group_id : {None, 1},
     amount : {2, 4}, period : {<<1, 3>>}, alert_threshold : {50},
     is_active : BOOLEAN]

SummaryExpenseRequests ==
    [user_id : {1}, category : {<<1, None>>, <<2, None>>}, expense_date : {2},
     amount : {1, 3}]

BudgetDeleteRequests == [user_id : Users, id : 1..MaxBudgets]

SummaryRequests == [user_id : Users, id : 1..MaxGroups]

delete_budget_outcome(r) == delete_budget(r.user_id, r.id)

CreateSummaryGroup ==
    \E r \in SummaryGroupRequests : Serve("create_budget_group", create_group_outcome(r))

AddBudget ==
    \E r \in SummaryBudgetRequests : Serve("create_budget", create_budget_outcome(r))

DeleteBudget ==
    \E r \in BudgetDeleteRequests : Serve("delete_budget", delete_budget_outcome(r))

SpendInGroup ==
    \E r \in SummaryExpenseRequests :
        /\ Len(expenses) < MaxExpenses
        /\ expenses' = create_expense(r)
        /\ resp' = Answer("create_expense", "created")
        /\ UNCHANGED <<budget_groups, budgets, req>>

\* GET /budget-groups/{id}/summary : read_budget_group_summary.
ReadBudgetGroupSummary ==
    \E r \in SummaryRequests :
        /\ IF get_owned(budget_groups, r.id, r.user_id)
           THEN \E members \in group_budgets(budgets, r.id) :
                    resp' = Answer("read_budget_group_summary",
                                   get_budget_group_summary(budgets, members, expenses).status)
           ELSE resp' = Answer("read_budget_group_summary", "not_found")
        /\ UNCHANGED <<budget_groups, budgets, expenses, req>>

NextSummary ==
    \/ CreateSummaryGroup
    \/ AddBudget
    \/ DeleteBudget
    \/ SpendInGroup
    \/ ReadBudgetGroupSummary

SpecSummary == Init /\ [][NextSummary]_vars

\* The active budgets of a group, as a set of rows.
ActiveMembers(group_id) ==
    {i \in DOMAIN budgets : budgets[i].budget_group_id = group_id /\ budgets[i].is_active}

RECURSIVE SumOfAmounts(_)
SumOfAmounts(S) ==
    IF S = {} THEN 0
    ELSE LET i == CHOOSE i \in S : TRUE
         IN  budgets[i].amount + SumOfAmounts(S \ {i})

RECURSIVE SumOfSpent(_)
SumOfSpent(S) ==
    IF S = {} THEN 0
    ELSE LET i == CHOOSE i \in S : TRUE
         IN  get_spent_amount(budgets[i], expenses) + SumOfSpent(S \ {i})

\* C10: whatever the order in which a group's budgets are iterated, its
\* total_budgeted is the sum of the amounts of its active member budgets
\* and its total_spent the sum of their spent amounts.
GroupTotalsAreMemberSums ==
    \A g \in DOMAIN budget_groups : \A members \in group_budgets(budgets, g) :
        LET summary == get_budget_group_summary(budgets, members, expenses)
        IN  /\ summary.total_budgeted = SumOfAmounts(ActiveMembers(g))
            /\ summary.total_spent = SumOfSpent(ActiveMembers(g))

\* C10 witness: the summary of a group was read whose budgets, two of
\* them active with different amounts and one spent against, can be
\* iterated in two orders.
SummaryReadOverTwoMembers ==
    /\ resp.op = "read_budget_group_summary"
    /\ resp.result # "not_found"
    /\ \E g \in DOMAIN budget_groups :
          /\ Cardinality(group_budgets(budgets, g)) = 2
          /\ \E i, j \in ActiveMembers(g) : budgets[i].amount # budgets[j].amount
          /\ SumOfSpent(ActiveMembers(g)) > 0


\* The store with every budget's alert_threshold set to t.
WithThreshold(store, t) ==
    [i \in DOMAIN store |-> [store[i] EXCEPT !.alert_threshold = t]]

\* The scenario of two budgets of one group: Food (category 1) of 300 with
\* 250 spent, Transport (category 3) of 100 with 120 spent.
ScenarioBudgets ==
    <<new_budget(1, 1, 1, 300, 1, 3, 80, TRUE), new_budget(1, 3, 1, 100, 1, 3, 80, TRUE)>>

ScenarioExpenses == <<new_expense(1, 1, None, 2, 250), new_expense(1, 3, None, 2, 120)>>

\* C11: the status of a group is over_budget iff total_spent exceeds
\* total_budgeted, otherwise warning iff the percentage of the totals
\* (0 for a zero total) reaches 80, otherwise on_track, whatever the
\* alert thresholds of its budgets; Food 300/250 and Transport 100/120 give
\* 400, 370, 30, 92.5 percent and warning, Transport alone over_budget.
GroupStatusFromTotals ==
    /\ \A g \in DOMAIN budget_groups : \A members \in group_budgets(budgets, g) :
          LET summary == get_budget_group_summary(budgets, members, expenses)
          IN  /\ summary.status
                   = ClassifiedStatus(summary.total_budgeted, summary.total_spent, 80)
              /\ summary.total_remaining = summary.total_budgeted - summary.total_spent
              /\ summary.total_budgeted = 0 => summary.percentage_used.num = 0
              /\ \A t \in AlertThresholds :
                    get_budget_group_summary(WithThreshold(budgets, t), members,
                                             expenses).status = summary.status
    /\ \A members \in group_budgets(ScenarioBudgets, 1) :
          LET summary == get_budget_group_summary(ScenarioBudgets, members,
                                                  ScenarioExpenses)
          IN  /\ summary.total_budgeted = 400
              /\ summary.total_spent = 370
              /\ summary.total_remaining = 30
              /\ summary.percentage_used.num * 10 = 925 * summary.percentage_used.den
              /\ summary.status = "warning"
    /\ get_status(ScenarioBudgets[2], ScenarioExpenses) = "over_budget"

\* C11 witness: the summary of a group was read as warning while one of
\* its active budgets, with an alert threshold other than 80, is
\* over_budget on its own.
GroupWarningMemberOverBudget ==
    /\ resp = Answer("read_budget_group_summary", "warning")
    /\ \E g \in DOMAIN budget_groups :
          /\ \E members \in group_budgets(budgets, g) :
                get_budget_group_summary(budgets, members, expenses).status = "warning"
          /\ \E i \in ActiveMembers(g) :
                /\ budgets[i].alert_threshold # 80
                /\ get_status(budgets[i], expenses) = "over_budget"


\* The sum of a field over the entries of a dict.
RECURSIVE SumOver(_, _, _)
SumOver(d, names, field) ==
    IF names = {} THEN 0
    ELSE LET n == CHOOSE n \in names : TRUE
         IN  (CASE field = "budgeted" -> d[n].budgeted
                [] OTHER -> d[n].spent)
             + SumOver(d, names \ {n}, field)

\* C12: in the category summary of every group, whatever the order in
\* which its budgets are processed, every main entry has total_budgeted =
\* budgeted + the sum of its subcategories' budgeted and total_spent =
\* spent + the sum of its subcategories' spent.
CategoryTotalsFoldSubcategories ==
    \A g \in DOMAIN budget_groups : \A members \in group_budgets(budgets, g) :
        LET category_summaries == get_category_summary(budgets, members, expenses)
        IN  \A n \in DOMAIN category_summaries :
                LET main_cat == category_summaries[n]
                    names == DOMAIN main_cat.subcategories
                IN  /\ main_cat.total_budgeted
                         = main_cat.budgeted
                           + SumOver(main_cat.subcategories, names, "budgeted")
                    /\ main_cat.total_spent
                         = main_cat.spent + SumOver(main_cat.subcategories, names, "spent")

\* C12 witness: the summary of a group was read that has an active budget
\* on a primary category and an active budget on its subcategory, both
\* spent against.
SummaryReadOverParentAndChild ==
    /\ resp.op = "read_budget_group_summary"
    /\ resp.result # "not_found"
    /\ \E g \in DOMAIN budget_groups : \E i, j \in ActiveMembers(g) :
          /\ budgets[i].category_id = 1
          /\ budgets[j].category_id = 2
          /\ get_spent_amount(budgets[i], expenses) > 0
          /\ get_spent_amount(budgets[j], expenses) > 0


\* C13: every main entry of the category_summaries returned by
\* get_budget_group_summary carries total_budgeted = budgeted + the sum of
\* its subcategories' budgeted, total_spent = spent + the sum of their
\* spent, and total_remaining = total_budgeted - total_spent.
ReturnedEntriesCarryTotals ==
    \A g \in DOMAIN budget_groups : \A members \in group_budgets(budgets, g) :
        LET summary == get_budget_group_summary(budgets, members, expenses)
        IN  \A n \in DOMAIN summary.category_summaries :
                LET entry == summary.category_summaries[n]
                    names == DOMAIN entry.subcategories
                    total_budgeted == entry.budgeted
                                      + SumOver(entry.subcategories, names, "budgeted")
                    total_spent == entry.spent
                                   + SumOver(entry.subcategories, names, "spent")
                IN  /\ entry.total_budgeted = Given(total_budgeted)
                    /\ entry.total_spent = Given(total_spent)
                    /\ entry.total_remaining = Given(total_budgeted - total_spent)

\* C14: an active budget of a group that has no category adds its amount
\* to the group's total_budgeted and its spent amount to total_spent, and
\* leaves the category summary as it is without the budget, whatever the
\* order of the budgets.
UncategorisedInTotalsOnly ==
    \A g \in DOMAIN budget_groups : \A members \in group_budgets(budgets, g) :
        \A k \in DOMAIN members :
            LET b == budgets[members[k]]
                others == Without(members, k)
            IN  (b.is_active /\ b.category_id = None) =>
                    /\ total_budgeted_amount(budgets, members)
                         = total_budgeted_amount(budgets, others) + b.amount
                    /\ get_total_spent_amount(budgets, members, expenses)
                         = get_total_spent_amount(budgets, others, expenses)
                           + get_spent_amount(b, expenses)
                    /\ get_category_summary(budgets, members, expenses)
                         = get_category_summary(budgets, others, expenses)
                    /\ get_budget_group_summary(budgets, members, expenses).category_summaries
                         = get_budget_group_summary(budgets, others, expenses).category_summaries

\* C14 witness: the summary of a group was read that has an active budget
\* with no category, spent against, next to an active budget on a category.
SummaryReadOverUncategorised ==
    /\ resp.op = "read_budget_group_summary"
    /\ resp.result # "not_found"
    /\ \E g \in DOMAIN budget_groups : \E i, j \in ActiveMembers(g) :
          /\ budgets[i].category_id = None
          /\ budgets[i].amount > 0
          /\ get_spent_amount(budgets[i], expenses) > 0
          /\ budgets[j].category_id # None



\* ---------------------------------- the user's summary and deactivated rows
\* The mutant of current_filter that lets deactivated budgets through.
current_filter_any(b, user_id, check_date) ==
    /\ b.user_id = user_id
    /\ b.start_date <= check_date
    /\ (b.end_date = None \/ b.end_date >= check_date)

\* The filters of get_current_budgets.
current_filter(b, user_id, check_date) ==
    /\ b.user_id = user_id
    /\ b.is_active
    /\ b.start_date <= check_date
    /\ (b.end_date = None \/ b.end_date >= check_date)

\* get_current_budgets: the rows that pass the filters, in an order the
\* query does not fix. check_date is the day of the call when not given.
get_current_budgets(store, user_id, check_date) ==
    LET rows == {i \in DOMAIN store : current_filter(store[i], user_id, check_date)}
    IN  {order \in [1..Cardinality(rows) -> rows] :
            \A a, b \in DOMAIN order : a # b => order[a] # order[b]}

\* sum(budget.amount_decimal for budget in current_budgets)
RECURSIVE total_budget(_, _)
total_budget(store, current_budgets) ==
    IF current_budgets = <<>> THEN 0
    ELSE store[Head(current_budgets)].amount + total_budget(store, Tail(current_budgets))

\* sum(budget.get_spent_amount(db) for budget in current_budgets)
RECURSIVE total_spent(_, _, _)
total_spent(store, current_budgets, exps) ==
    IF current_budgets = <<>> THEN 0
    ELSE get_spent_amount(store[Head(current_budgets)], exps)
         + total_spent(store, Tail(current_budgets), exps)

\* status_counts[status] after the loop over current_budgets.
status_counts(store, current_budgets, exps) ==
    [status \in {"on_track", "warning", "over_budget"} |->
        Cardinality({k \in DOMAIN current_budgets :
                        get_status(store[current_budgets[k]], exps) = status})]

\* overall_status of get_budget_summary.
overall_status(budgeted, spent) ==
    IF spent > budgeted THEN "over_budget"
    ELSE IF budgeted > 0 /\ spent * 100 >= 80 * budgeted THEN "warning"
    ELSE "on_track"

\* get_budget_summary over the rows get_current_budgets returned. Its last
\* entry reads current_budgets[0], an IndexError on an empty list.
get_budget_summary(store, current_budgets, exps) ==
    IF current_budgets = <<>> THEN [error |-> "IndexError"]
    ELSE [error |-> "none",
          total_budget |-> total_budget(store, current_budgets),
          total_spent |-> total_spent(store, current_budgets, exps),
          total_remaining |-> total_budget(store, current_budgets)
                              - total_spent(store, current_budgets, exps),
          overall_status |-> overall_status(total_budget(store, current_budgets),
                                            total_spent(store, current_budgets, exps)),
          budget_count |-> Len(current_budgets),
          status_counts |-> status_counts(store, current_budgets, exps),
          budgets |-> [k \in DOMAIN current_budgets |->
                          get_budget_performance(store[current_budgets[k]], exps)],
          category_id |-> store[current_budgets[1]].category_id]

\* get_budget_alerts over the rows get_current_budgets returned.
RECURSIVE get_budget_alerts(_, _, _)
get_budget_alerts(store, current_budgets, exps) ==
    IF current_budgets = <<>> THEN <<>>
    ELSE LET budget == Head(current_budgets)
         IN  (IF should_alert(store[budget], exps)
              THEN <<[budget |-> budget,
                      alert_type |-> IF is_over_budget(store[budget], exps)
                                     THEN "over_budget" ELSE "warning"]>>
              ELSE <<>>)
             \o get_budget_alerts(store, Tail(current_budgets), exps)

\* User 1 creates groups over [1,3] and deactivates them, creates budgets
\* in group 1 or in no group, deactivates them, records expenses, and reads
\* the summary of the budgets current on some day.
DeactivateGroupRequests ==
    [user_id : {1}, start_date : {1}, end_date : {3}, is_active : {TRUE},
     auto_create_budgets : {FALSE}, default_amount : {5}]

DeactivateBudgetRequests ==
    [user_id : {1}, category_id : {None, 1}, budget_group_id : {None, 1},
     amount : {2}, period : {<<1, 3>>}, alert_threshold : {50}, is_active : {TRUE}]

DeactivateExpenseRequests ==
    [user_id : {1}, category : {<<1, None>>}, expense_date : {2}, amount : {1, 3}]

BudgetSummaryRequests == [user_id : Users, today : {2, 4}]

CreateGroupToDeactivate ==
    \E r \in DeactivateGroupRequests :
        Serve("create_budget_group", create_group_outcome(r))

CreateBudgetToDeactivate ==
    \E r \in DeactivateBudgetRequests : Serve("create_budget", create_budget_outcome(r))

SpendOnCategory ==
    \E r \in DeactivateExpenseRequests :
        /\ Len(expenses) < MaxExpenses
        /\ expenses' = create_expense(r)
        /\ resp' = Answer("create_expense", "created")
        /\ UNCHANGED <<budget_groups, budgets, req>>

\* GET /budgets/summary : read_budget_summary.
ReadBudgetSummary ==
    \E r \in BudgetSummaryRequests :
        \E current_budgets \in get_current_budgets(budgets, r.user_id, r.today) :
            LET summary == get_budget_summary(budgets, current_budgets, expenses)
            IN  /\ resp' = Answer("read_budget_summary",
                                  IF summary.error = "none" THEN summary.overall_status
                                  ELSE summary.error)
                /\ UNCHANGED <<budget_groups, budgets, expenses, req>>

NextDeactivate ==
    \/ CreateGroupToDeactivate
    \/ DeleteBudgetGroup
    \/ CreateBudgetToDeactivate
    \/ DeleteBudget
    \/ SpendOnCategory
    \/ ReadBudgetSummary

SpecDeactivate == Init /\ [][NextDeactivate]_vars

\* The store with the amount, category and period of budget i changed.
WithOtherBudget(store, i) ==
    [store EXCEPT ![i].amount = @ + 1, ![i].category_id = None, ![i].end_date = None]

\* C15: a deactivated budget is in no aggregate: the total_budgeted,
\* total_spent, category summary and budget_count of its group are those
\* of the group without it, it is no current budget of its user on any
\* day, so that the user's summary and alerts are the same whatever its
\* amount and spending; and the overlap check returns no deactivated group.
DeactivatedRowsContributeNothing ==
    /\ \A g \in DOMAIN budget_groups : \A members \in group_budgets(budgets, g) :
          \A k \in DOMAIN members :
              LET others == Without(members, k)
                  summary == get_budget_group_summary(budgets, members, expenses)
                  without == get_budget_group_summary(budgets, others, expenses)
              IN  ~budgets[members[k]].is_active =>
                      /\ summary.total_budgeted = without.total_budgeted
                      /\ summary.total_spent = without.total_spent
                      /\ summary.budget_count = without.budget_count
                      /\ summary.category_summaries = without.category_summaries
                      /\ get_category_summary(budgets, members, expenses)
                           = get_category_summary(budgets, others, expenses)
    /\ \A i \in DOMAIN budgets : ~budgets[i].is_active =>
          \A user_id \in Users : \A today \in Dates :
              LET current == get_current_budgets(budgets, user_id, today)
              IN  /\ \A current_budgets \in current :
                        /\ \A k \in DOMAIN current_budgets : current_budgets[k] # i
                        /\ get_budget_summary(WithOtherBudget(budgets, i),
                                              current_budgets, expenses)
                             = get_budget_summary(budgets, current_budgets, expenses)
                        /\ get_budget_alerts(WithOtherBudget(budgets, i),
                                             current_budgets, expenses)
                             = get_budget_alerts(budgets, current_budgets, expenses)
                  /\ get_current_budgets(WithOtherBudget(budgets, i), user_id, today)
                       = current
    /\ \A user_id \in Users : \A start_date, end_date \in Dates :
          \A exclude_id \in {None} \cup DOMAIN budget_groups :
              \A g \in get_overlapping_groups(budget_groups, user_id, start_date,
                                              end_date, exclude_id) :
                  budget_groups[g].is_active

\* C15 witness: the user's summary was read while a deactivated budget
\* with spending sits in a group next to an active one, and a deactivated
\* group covers the period of an active group of the same user.
SummaryReadOverDeactivated ==
    /\ resp.op = "read_budget_summary"
    /\ resp.result # "IndexError"
    /\ \E i, j \in DOMAIN budgets :
          /\ ~budgets[i].is_active
          /\ budgets[i].budget_group_id # None
          /\ get_spent_amount(budgets[i], expenses) > 0
          /\ budgets[j].is_active
          /\ budgets[j].budget_group_id = budgets[i].budget_group_id
    /\ \E g, h \in DOMAIN budget_groups :
          /\ ~budget_groups[g].is_active
          /\ budget_groups[h].is_active
          /\ budget_groups[g].user_id = budget_groups[h].user_id
          /\ overlap_filter(budget_groups[g], budget_groups[h].start_date,
                            budget_groups[h].end_date)



\* ------------------------------------------ generation on an existing group
\* The validator of GenerateBudgetsRequest; the request has the fields
\* category_scope, default_amount and include_inactive_categories, and
\* anything else in the payload is dropped.
valid_generate_request(default_amount) == default_amount > 0

\* POST /budget-groups/{id}/generate-budgets : generate_budgets_for_group
\* with CRUDBudgetGroup.generate_budgets, on the tables `groups` and
\* `store`. generate_budgets hands no category_configs on.
generate_budgets(groups, store, user_id, budget_group_id, category_scope, default_amount, include_inactive) ==
    IF ~valid_generate_request(default_amount)
    THEN Outcome("validation_error", groups, store, {}, 0)
    ELSE IF ~get_owned(groups, budget_group_id, user_id)
    THEN Outcome("generated", groups, store, {}, 0)
    ELSE IF generation_raises(default_amount)
    THEN Outcome("server_error", groups, store, {}, 0)
    ELSE LET created == generate_budgets_for_group(store, budget_group_id,
                            groups[budget_group_id], user_id, category_scope,
                            default_amount, include_inactive, NoConfigs)
         IN  Outcome("generated", groups, store \o created, {}, Len(created))

MaxGenerated == 4

\* A request of the generation service served; the response carries the
\* number of budgets created.
ServeGeneration(op, outcome) ==
    /\ Len(outcome.budget_groups) <= MaxGroups
    /\ Len(outcome.budgets) <= MaxGenerated
    /\ budget_groups' = outcome.budget_groups
    /\ budgets' = outcome.budgets
    /\ resp' = [op |-> op, result |-> outcome.result, created |-> outcome.created]
    /\ UNCHANGED <<expenses, req>>

\* The category_configs a caller sends: none, or 7 for category 1.
ConfigSets == {NoConfigs, [c \in {1} |-> 7]}

\* User 1 creates a group in USD over [1,3], with or without generated
\* budgets; both users ask for budgets to be generated in a group,
\* deactivate budgets, and user 2 puts a budget of its own on category 1
\* into group 1, which create_budget does not refuse.
GenerationGroupRequests ==
    [user_id : {1}, start_date : {1}, end_date : {3}, currency : {"USD"},
     is_active : {TRUE}, auto_create_budgets : BOOLEAN, category_scope : CategoryScopes,
     default_amount : {0, 5}, include_inactive : BOOLEAN, category_configs : ConfigSets]

GenerateRequests ==
    [user_id : Users, id : 1..MaxGroups, category_scope : CategoryScopes,
     default_amount : {0, 5}, include_inactive : BOOLEAN, overrides : ConfigSets]

GeneratedDeleteRequests == [user_id : Users, id : 1..MaxGenerated]

ForeignBudgetRequests ==
    [user_id : {2}, category_id : {1}, budget_group_id : {1}, amount : {2},
     period : {<<1, 3>>}, alert_threshold : {50}, is_active : {TRUE}]

generation_group_outcome(r) ==
    create_budget_group(r.user_id, r.start_date, r.end_date, r.currency, r.is_active,
                        r.auto_create_budgets, r.category_scope, r.default_amount,
                        r.include_inactive, r.category_configs)

generate_outcome(r) ==
    generate_budgets(budget_groups, budgets, r.user_id, r.id, r.category_scope,
                     r.default_amount, r.include_inactive)

CreateGeneratingGroup ==
    \E r \in GenerationGroupRequests :
        ServeGeneration("create_budget_group", generation_group_outcome(r))

GenerateBudgets ==
    \E r \in GenerateRequests : ServeGeneration("generate_budgets", generate_outcome(r))

DeleteGeneratedBudget ==
    \E r \in GeneratedDeleteRequests :
        ServeGeneration("delete_budget", delete_budget_outcome(r))

CreateForeignBudget ==
    \E r \in ForeignBudgetRequests :
        ServeGeneration("create_budget", create_budget_outcome(r))

NextGenerate ==
    \/ CreateGeneratingGroup
    \/ GenerateBudgets
    \/ DeleteGeneratedBudget
    \/ CreateForeignBudget

SpecGenerate == Init /\ [][NextGenerate]_vars

\* C16: a generation that is answered, asked again with the same arguments
\* on the tables it left, creates no budget, returns 0 and leaves the
\* budgets as they are.
GenerateTwiceCreatesNothing ==
    \A r \in GenerateRequests :
        LET first == generate_outcome(r)
            second == generate_budgets(first.budget_groups, first.budgets, r.user_id,
                                       r.id, r.category_scope, r.default_amount,
                                       r.include_inactive)
        IN  first.result = "generated" =>
                /\ second.result = "generated"
                /\ second.created = 0
                /\ second.budgets = first.budgets
                /\ second.budget_groups = first.budget_groups

\* C16 witness: a generation was answered with 0 budgets created for a
\* group of its user in which every category asked for has its budget.
GeneratedNothingAgain ==
    /\ resp.op = "generate_budgets"
    /\ resp.result = "generated"
    /\ resp.created = 0
    /\ \E g \in DOMAIN budget_groups :
          /\ budget_groups[g].user_id = 1
          /\ \A c \in query_categories(1, "all", TRUE) :
                budget_exists(budgets, 1, g, c)


\* A category is in the scope asked for.
InScope(c, category_scope) ==
    CASE category_scope = "primary" -> Category(c).parent_id = None
      [] category_scope = "subcategories" -> Category(c).parent_id # None
      [] OTHER -> TRUE

\* The group g holds an active budget on category c; of user_id when
\* own_only, of anyone otherwise.
HasActiveBudget(g, c, user_id, own_only) ==
    \E i \in DOMAIN budgets :
        /\ budgets[i].budget_group_id = g
        /\ budgets[i].category_id = c
        /\ budgets[i].is_active
        /\ (own_only => budgets[i].user_id = user_id)

\* The categories a generation for user_id in group g is to create a
\* budget for.
ToGenerate(g, user_id, category_scope, include_inactive, own_only) ==
    {c \in CategoryIds :
        /\ Category(c).user_id = user_id
        /\ InScope(c, category_scope)
        /\ (Category(c).is_active \/ include_inactive)
        /\ ~HasActiveBudget(g, c, user_id, own_only)}

\* An outcome keeps the budgets there were and adds exactly one budget for
\* each category of `expected`, and reports their number.
AddsOnePerCategory(outcome, expected) ==
    LET created == SubSeq(outcome.budgets, Len(budgets) + 1, Len(outcome.budgets))
    IN  /\ Len(outcome.budgets) >= Len(budgets)
        /\ SubSeq(outcome.budgets, 1, Len(budgets)) = budgets
        /\ {created[k].category_id : k \in DOMAIN created} = expected
        /\ Len(created) = Cardinality(expected)
        /\ outcome.created = Len(created)

\* Generation creates what it is to create, on both paths, the budgets
\* that stop it being those of the user (own_only) or of anyone.
GenerationExact(own_only) ==
    /\ \A r \in GenerateRequests :
          LET outcome == generate_outcome(r)
          IN  outcome.result = "generated" =>
                  AddsOnePerCategory(outcome,
                      IF get_owned(budget_groups, r.id, r.user_id)
                      THEN ToGenerate(r.id, r.user_id, r.category_scope,
                                      r.include_inactive, own_only)
                      ELSE {})
    /\ \A r \in GenerationGroupRequests :
          LET outcome == generation_group_outcome(r)
          IN  outcome.result = "created" =>
                  AddsOnePerCategory(outcome,
                      IF r.auto_create_budgets
                      THEN ToGenerate(Len(budget_groups) + 1, r.user_id,
                                      r.category_scope, r.include_inactive, own_only)
                      ELSE {})

\* The worked example: user 3 has Rent and Groceries (primary) and Snacks
\* under Food; budgets of 50 are generated for scope primary in a new group.
ExampleGenerated ==
    generate_budgets_for_group(<<>>, 1, new_budget_group(3, 1, 3, "USD", TRUE), 3,
                               "primary", 50, FALSE, NoConfigs)

ExampleCreatesRentAndGroceries ==
    /\ Len(ExampleGenerated) = 2
    /\ {category_name(ExampleGenerated[k].category_id) : k \in DOMAIN ExampleGenerated}
         = {"Rent", "Groceries"}
    /\ \A k \in DOMAIN ExampleGenerated : ExampleGenerated[k].amount = 50

CreatedBy(outcome) == SubSeq(outcome.budgets, Len(budgets) + 1, Len(outcome.budgets))

\* Every budget of `created` has the override of its category when there
\* is one and default_amount otherwise.
AmountsFrom(created, overrides, default_amount) ==
    \A k \in DOMAIN created :
        created[k].amount = IF created[k].category_id \in DOMAIN overrides
                            THEN overrides[created[k].category_id]
                            ELSE default_amount

\* C18: every budget created by generation, at group creation and by
\* generate-budgets on an existing group, has the amount the caller's
\* overrides give for its category, and default_amount when they give none.
GeneratedAmountsFollowOverrides ==
    /\ \A r \in GenerationGroupRequests :
          LET outcome == generation_group_outcome(r)
          IN  outcome.result = "created" =>
                  AmountsFrom(CreatedBy(outcome), r.category_configs, r.default_amount)
    /\ \A r \in GenerateRequests :
          LET outcome == generate_outcome(r)
          IN  outcome.result = "generated" =>
                  AmountsFrom(CreatedBy(outcome), r.overrides, r.default_amount)

\* The tables are as they were.
NothingPersisted(outcome) ==
    outcome.budget_groups = budget_groups /\ outcome.budgets = budgets

\* C19: a generation asked with default_amount <= 0, by generate-budgets
\* or by a group creation with auto_create_budgets, is answered with a
\* validation error and changes neither the budgets nor the groups.
NonPositiveDefaultRejected ==
    /\ \A r \in GenerateRequests :
          r.default_amount <= 0 =>
              /\ generate_outcome(r).result = "validation_error"
              /\ NothingPersisted(generate_outcome(r))
    /\ \A r \in GenerationGroupRequests :
          (r.auto_create_budgets /\ r.default_amount <= 0) =>
              /\ generation_group_outcome(r).result = "validation_error"
              /\ NothingPersisted(generation_group_outcome(r))
    /\ resp.result = "validation_error" => resp.created = 0
    /\ \A i \in DOMAIN budgets : budgets[i].amount > 0

\* C19 witness: generate-budgets was answered with a validation error for
\* a group of the caller that lacks budgets, and no budget was created.
GenerateRejectedOnGroupWithoutBudgets ==
    /\ resp.op = "generate_budgets"
    /\ resp.result = "validation_error"
    /\ \E g \in DOMAIN budget_groups :
          /\ budget_groups[g].user_id = 1
          /\ ToGenerate(g, 1, "all", FALSE, TRUE) # {}
    /\ budgets = <<>>

\* C20: every budget created by generation has the start and end date and
\* the currency of its group, alert_threshold 80, is active, is linked to
\* the group and to a category of the user, and belongs to the group's user.
GeneratedBudgetInheritsGroup ==
    /\ \A r \in GenerateRequests :
          LET outcome == generate_outcome(r)
              created == CreatedBy(outcome)
          IN  \A k \in DOMAIN created :
                  /\ get_owned(budget_groups, r.id, r.user_id)
                  /\ created[k] = [user_id |-> budget_groups[r.id].user_id,
                                    category_id |-> created[k].category_id,
                                    budget_group_id |-> r.id,
                                    amount |-> created[k].amount,
                                    currency |-> budget_groups[r.id].currency,
                                    start_date |-> budget_groups[r.id].start_date,
                                    end_date |-> budget_groups[r.id].end_date,
                                    alert_threshold |-> 80,
                                    is_active |-> TRUE]
                  /\ Category(created[k].category_id).user_id = r.user_id
    /\ \A r \in GenerationGroupRequests :
          LET outcome == generation_group_outcome(r)
              created == CreatedBy(outcome)
              g == Len(budget_groups) + 1
          IN  \A k \in DOMAIN created :
                  /\ outcome.budget_groups[g].user_id = r.user_id
                  /\ created[k] = [user_id |-> r.user_id,
                                    category_id |-> created[k].category_id,
                                    budget_group_id |-> g,
                                    amount |-> created[k].amount,
                                    currency |-> r.currency,
                                    start_date |-> r.start_date,
                                    end_date |-> r.end_date,
                                    alert_threshold |-> 80,
                                    is_active |-> TRUE]
                  /\ Category(created[k].category_id).user_id = r.user_id

\* C20 witness: generate-budgets created budgets in a group whose currency
\* is not the one create_budget gives, next to a budget created by hand.
GeneratedInUsdGroup ==
    /\ resp.op = "generate_budgets"
    /\ resp.result = "generated"
    /\ resp.created >= 2
    /\ \E g \in DOMAIN budget_groups :
          /\ budget_groups[g].currency = "USD"
          /\ \E i, j \in DOMAIN budgets :
                /\ budgets[i].budget_group_id = g /\ budgets[i].currency = "EUR"
                /\ budgets[j].budget_group_id = g /\ budgets[j].currency = "USD"
                /\ budgets[j].alert_threshold = 80


\* ----------------------------------------------- bulk update of amounts
\* The validator of BulkBudgetUpdateItem, on every item of the request; a
\* request that fails it is answered 422 before the endpoint runs.
valid_bulk_request(items) == \A k \in DOMAIN items : items[k].amount >= 0

\* The mutant of bulk_matches that does not filter on the user.
bulk_matches_any_user(store, user_id, budget_group_id, item) ==
    IF item.budget_id # None
    THEN {i \in DOMAIN store :
            i = item.budget_id /\ store[i].budget_group_id = budget_group_id}
    ELSE IF item.category_id # None
    THEN {i \in DOMAIN store :
            /\ store[i].budget_group_id = budget_group_id
            /\ store[i].category_id = item.category_id}
    ELSE {}

\* The rows the query of bulk_update_amounts for an item selects; .first()
\* takes one of them, in an order the query does not fix.
bulk_matches(store, user_id, budget_group_id, item) ==
    IF item.budget_id # None
    THEN {i \in DOMAIN store :
            /\ i = item.budget_id
            /\ store[i].user_id = user_id
            /\ store[i].budget_group_id = budget_group_id}
    ELSE IF item.category_id # None
    THEN {i \in DOMAIN store :
            /\ store[i].user_id = user_id
            /\ store[i].budget_group_id = budget_group_id
            /\ store[i].category_id = item.category_id}
    ELSE {}

\* The loop of bulk_update_amounts over the items: the budgets as the
\* session holds them after the loop and the count, one result for each
\* choice .first() can make.
RECURSIVE bulk_update_loop(_, _, _, _)
bulk_update_loop(store, user_id, budget_group_id, items) ==
    IF items = <<>> THEN {[budgets |-> store, count |-> 0]}
    ELSE LET item == Head(items)
             matches == IF item.amount < 0 THEN {}
                        ELSE bulk_matches(store, user_id, budget_group_id, item)
         IN  IF matches = {}
             THEN bulk_update_loop(store, user_id, budget_group_id, Tail(items))
             ELSE UNION {{[budgets |-> o.budgets, count |-> o.count + 1] :
                            o \in bulk_update_loop([store EXCEPT ![i].amount = item.amount],
                                                   user_id, budget_group_id, Tail(items))} :
                         i \in matches}

\* POST /budget-groups/{id}/bulk-update-budgets : bulk_update_budgets with
\* CRUDBudgetGroup.bulk_update_amounts and its one commit, on the tables
\* `groups` and `store`: the outcomes it can have.
bulk_update_budgets(groups, store, user_id, budget_group_id, items) ==
    IF ~valid_bulk_request(items)
    THEN {Outcome("validation_error", groups, store, {}, 0)}
    ELSE {IF \A i \in DOMAIN o.budgets : budget_constraints(groups, o.budgets[i])
          THEN Outcome("updated", groups, o.budgets, {}, o.count)
          ELSE Outcome("integrity_error", groups, store, {}, 0) :
            o \in bulk_update_loop(store, user_id, budget_group_id, items)}

MaxItems == 2

\* The items of a bulk update: addressed by budget id, by category, by
\* both or by neither, with a negative amount or with 9.
BulkItems ==
    [budget_id : {None, 1}, category_id : {None, 1}, amount : {-5, 9}]

BulkItemLists == UNION {[1..n -> BulkItems] : n \in 0..MaxItems}

\* User 1 creates a group in USD over [1,3], with or without a budget on
\* its primary category; both users create budgets that name group 1,
\* ask for budgets to be generated, deactivate budgets and update amounts
\* in bulk.
BulkGroupRequests ==
    [user_id : {1}, start_date : {1}, end_date : {3}, currency : {"USD"},
     is_active : {TRUE}, auto_create_budgets : BOOLEAN, category_scope : {"primary"},
     default_amount : {5}, include_inactive : {FALSE}, category_configs : {NoConfigs}]

BulkGenerateRequests ==
    [user_id : Users, id : 1..MaxGroups, category_scope : {"primary"},
     default_amount : {5}, include_inactive : {FALSE}, overrides : {NoConfigs}]

DirectBudgetRequests ==
    [user_id : Users, category_id : {1}, budget_group_id : {1}, amount : {2},
     period : {<<1, 3>>}, alert_threshold : {50}, is_active : {TRUE}]

BulkUpdateRequests == [user_id : Users, id : 1..MaxGroups, items : BulkItemLists]

bulk_update_outcomes(r) ==
    bulk_update_budgets(budget_groups, budgets, r.user_id, r.id, r.items)

MaxBulkBudgets == 3

\* A request of this service served, the budgets table holding at most
\* MaxBulkBudgets rows; the response carries the number the endpoint
\* returns (created or updated).
ServeBulk(op, outcome) ==
    /\ Len(outcome.budgets) <= MaxBulkBudgets
    /\ ServeGeneration(op, outcome)

CreateGroupForBulk ==
    \E r \in BulkGroupRequests :
        ServeBulk("create_budget_group", generation_group_outcome(r))

GenerateForBulk ==
    \E r \in BulkGenerateRequests : ServeBulk("generate_budgets", generate_outcome(r))

CreateDirectBudget ==
    \E r \in DirectBudgetRequests : ServeBulk("create_budget", create_budget_outcome(r))

BulkUpdateBudgets ==
    \E r \in BulkUpdateRequests : \E outcome \in bulk_update_outcomes(r) :
        ServeBulk("bulk_update_budgets", outcome)

NextBulk ==
    \/ CreateGroupForBulk
    \/ GenerateForBulk
    \/ CreateDirectBudget
    \/ DeleteGeneratedBudget
    \/ BulkUpdateBudgets

SpecBulk == Init /\ [][NextBulk]_vars

\* C21: every active budget of a group has the currency of the group.
MemberBudgetsShareGroupCurrency ==
    \A i \in DOMAIN budgets :
        (budgets[i].is_active /\ budgets[i].budget_group_id \in DOMAIN budget_groups) =>
            budgets[i].currency = budget_groups[budgets[i].budget_group_id].currency


\* The items of a list that have no negative amount, in their order.
WithoutNegative(items) ==
    LET keep(item) == item.amount >= 0
    IN  SelectSeq(items, keep)

\* C22: a bulk update with items of negative amount is no error and does
\* what the same request does without those items: they change no budget
\* and are not counted, the other items are applied; a request of the one
\* item (category 1, amount -5) returns 0 and leaves the budgets as they are.
NegativeItemsSkipped ==
    /\ \A r \in BulkUpdateRequests :
          /\ \A outcome \in bulk_update_outcomes(r) : outcome.result = "updated"
          /\ bulk_update_outcomes(r)
               = bulk_update_outcomes([r EXCEPT !.items = WithoutNegative(r.items)])
    /\ \A user_id \in Users : \A g \in 1..MaxGroups :
          bulk_update_budgets(budget_groups, budgets, user_id, g,
                              <<[budget_id |-> None, category_id |-> 1, amount |-> -5]>>)
            = {Outcome("updated", budget_groups, budgets, {}, 0)}

\* An item of a request of user_id on group g finds a budget: the one of
\* its budget_id when it has one, else one of its category.
Resolvable(item, user_id, g) ==
    \E i \in DOMAIN budgets :
        /\ budgets[i].user_id = user_id
        /\ budgets[i].budget_group_id = g
        /\ IF item.budget_id # None THEN i = item.budget_id
           ELSE item.category_id # None /\ budgets[i].category_id = item.category_id

\* Budget i is one an item of the request is addressed to.
Addressed(i, r) ==
    \E k \in DOMAIN r.items :
        IF r.items[k].budget_id # None THEN i = r.items[k].budget_id
        ELSE r.items[k].category_id # None
             /\ budgets[i].category_id = r.items[k].category_id

\* C23: a bulk update whose items pass validation returns the number of
\* its items that find a budget, by budget_id when given and by group and
\* category otherwise, and changes nothing but the amount of budgets of
\* the named group and the requesting user that an item is addressed to.
BulkUpdateChangesOnlyOwnAmounts ==
    \A r \in BulkUpdateRequests : \A outcome \in bulk_update_outcomes(r) :
        valid_bulk_request(r.items) =>
            /\ outcome.result = "updated"
            /\ outcome.created
                 = Cardinality({k \in DOMAIN r.items : Resolvable(r.items[k], r.user_id, r.id)})
            /\ outcome.budget_groups = budget_groups
            /\ DOMAIN outcome.budgets = DOMAIN budgets
            /\ \A i \in DOMAIN budgets :
                  /\ outcome.budgets[i]
                       = [budgets[i] EXCEPT !.amount = outcome.budgets[i].amount]
                  /\ outcome.budgets[i] # budgets[i] =>
                        /\ budgets[i].user_id = r.user_id
                        /\ budgets[i].budget_group_id = r.id
                        /\ Addressed(i, r)

\* C23 witness: a bulk update applied one item, and a budget of user 1 has
\* the new amount while the budget of user 2 in the same group and on the
\* same category keeps its own.
BulkUpdatedBesideForeignBudget ==
    /\ resp.op = "bulk_update_budgets"
    /\ resp.result = "updated"
    /\ resp.created = 1
    /\ \E i, j \in DOMAIN budgets :
          /\ budgets[i].user_id = 1 /\ budgets[i].amount = 9
          /\ budgets[j].user_id = 2 /\ budgets[j].amount = 2
          /\ budgets[i].budget_group_id = budgets[j].budget_group_id
          /\ budgets[i].category_id = budgets[j].category_id

\* C25: generate, bulk update and budget deletion on a budget or group
\* that does not exist or belongs to another user are answered not_found
\* and change nothing.
MissingOrForeignIsNotFound ==
    /\ \A r \in BulkGenerateRequests :
          ~get_owned(budget_groups, r.id, r.user_id) =>
              /\ generate_outcome(r).result = "not_found"
              /\ NothingPersisted(generate_outcome(r))
    /\ \A r \in BulkUpdateRequests : \A outcome \in bulk_update_outcomes(r) :
          ~get_owned(budget_groups, r.id, r.user_id) =>
              /\ outcome.result = "not_found"
              /\ NothingPersisted(outcome)
    /\ \A r \in GeneratedDeleteRequests :
          ~get_owned(budgets, r.id, r.user_id) =>
              /\ delete_budget_outcome(r).result = "not_found"
              /\ NothingPersisted(delete_budget_outcome(r))

\* The members of a list that are budgets of user_id, in their order.
OwnMembers(members, user_id) ==
    LET own(i) == budgets[i].user_id = user_id
    IN  SelectSeq(members, own)

\* C28: the total_budgeted, total_spent, budget_count and category
\* summary of a group are those of the budgets of the group's user in it.
GroupSummaryOfOwnBudgetsOnly ==
    \A g \in DOMAIN budget_groups : \A members \in group_budgets(budgets, g) :
        LET summary == get_budget_group_summary(budgets, members, expenses)
            own == get_budget_group_summary(
                       budgets, OwnMembers(members, budget_groups[g].user_id), expenses)
        IN  /\ summary.total_budgeted = own.total_budgeted
            /\ summary.total_spent = own.total_spent
            /\ summary.budget_count = own.budget_count
            /\ summary.category_summaries = own.category_summaries

\* C29: a bulk update changes the amount of no deactivated budget.
BulkUpdateSparesDeactivated ==
    \A r \in BulkUpdateRequests : \A outcome \in bulk_update_outcomes(r) :
        \A i \in DOMAIN budgets :
            ~budgets[i].is_active => outcome.budgets[i].amount = budgets[i].amount


\* --------------------------------------- a bulk update, query by query
\* A call of bulk_update_amounts in flight: its request, the item the loop
\* is at, the amounts assigned in the session and not yet written (the
\* session does not autoflush), and the count.
BulkInFlight(r, pc, dirty, count) ==
    [request |-> r, pc |-> pc, dirty |-> dirty, count |-> count]

\* Requests of user 1 on group 1 whose items pass the validator and are
\* addressed by budget id, by category or by neither.
BatchRequests ==
    {r \in BulkUpdateRequests :
        /\ r.user_id = 1
        /\ r.id = 1
        /\ valid_bulk_request(r.items)
        /\ \A k \in DOMAIN r.items :
              r.items[k].budget_id = None \/ r.items[k].category_id = None}

\* The endpoint is entered: nothing is assigned yet.
BeginBulkUpdate ==
    \E r \in BatchRequests :
        /\ req = <<>>
        /\ req' = <<BulkInFlight(r, 1, <<>>, 0)>>
        /\ UNCHANGED <<budget_groups, budgets, expenses, resp>>

\* The mutant of ApplyItem that writes the amount to the table at once.
ApplyItemCommitting ==
    /\ req # <<>>
    /\ req[1].pc <= Len(req[1].request.items)
    /\ LET call == req[1]
           item == call.request.items[call.pc]
           matches == bulk_matches(budgets, call.request.user_id, call.request.id, item)
       IN  IF matches = {}
           THEN /\ req' = <<[call EXCEPT !.pc = @ + 1]>>
                /\ budgets' = budgets
           ELSE \E i \in matches :
                   /\ req' = <<[call EXCEPT !.pc = @ + 1, !.count = @ + 1]>>
                   /\ budgets' = [budgets EXCEPT ![i].amount = item.amount]
    /\ UNCHANGED <<budget_groups, expenses, resp>>

\* One turn of the loop: the item's query is answered from the table and
\* the amount is assigned to the row the session holds.
ApplyItem ==
    /\ req # <<>>
    /\ req[1].pc <= Len(req[1].request.items)
    /\ LET call == req[1]
           item == call.request.items[call.pc]
           matches == bulk_matches(budgets, call.request.user_id, call.request.id, item)
       IN  IF matches = {}
           THEN req' = <<[call EXCEPT !.pc = @ + 1]>>
           ELSE \E i \in matches :
                   req' = <<[call EXCEPT !.pc = @ + 1, !.count = @ + 1,
                                         !.dirty = dict_set(@, i, item.amount)]>>
    /\ UNCHANGED <<budget_groups, budgets, expenses, resp>>

\* The call fails before its commit (a query raises, the connection is
\* lost): get_db closes the session, which rolls back.
FailBulkUpdate ==
    /\ req # <<>>
    /\ req' = <<>>
    /\ resp' = [op |-> "bulk_update_budgets", result |-> "server_error", created |-> 0]
    /\ UNCHANGED <<budget_groups, budgets, expenses>>

\* db.commit() after the loop: the assigned amounts are written in one
\* transaction, each to its row as the table has it now.
CommitBulkUpdate ==
    /\ req # <<>>
    /\ req[1].pc > Len(req[1].request.items)
    /\ budgets' = [i \in DOMAIN budgets |->
                       IF i \in DOMAIN req[1].dirty
                       THEN [budgets[i] EXCEPT !.amount = req[1].dirty[i]]
                       ELSE budgets[i]]
    /\ req' = <<>>
    /\ resp' = [op |-> "bulk_update_budgets", result |-> "updated",
                created |-> req[1].count]
    /\ UNCHANGED <<budget_groups, expenses>>

\* Other requests are served while the call is in flight.
NextBatch ==
    \/ CreateGroupForBulk
    \/ CreateDirectBudget
    \/ DeleteGeneratedBudget
    \/ BeginBulkUpdate
    \/ ApplyItem
    \/ FailBulkUpdate
    \/ CommitBulkUpdate

SpecBatch == Init /\ [][NextBatch]_vars

\* A step changes amounts only as the commit of a bulk update whose loop
\* is through, writing every amount the call assigned; a step in which the
\* call fails leaves the budgets as they are.
AmountsWrittenAtCommit ==
    /\ (\E i \in DOMAIN budgets : budgets'[i].amount # budgets[i].amount) =>
          /\ req # <<>>
          /\ req[1].pc > Len(req[1].request.items)
          /\ req' = <<>>
          /\ resp'.result = "updated"
          /\ \A i \in DOMAIN budgets :
                budgets'[i].amount = IF i \in DOMAIN req[1].dirty
                                     THEN req[1].dirty[i]
                                     ELSE budgets[i].amount
    /\ (req # <<>> /\ req' = <<>> /\ resp'.result = "server_error") =>
          budgets' = budgets

\* C24: the amounts of the table change only in the commit of a bulk
\* update whose loop is through, and then every amount the call assigned
\* is written in that one step; a call that fails part-way leaves every
\* amount as it is.
BatchIsOneUnitOfWork == [][AmountsWrittenAtCommit]_vars

\* C24 witness: a bulk update of two items is part-way: its first item is
\* applied in the session, to a budget whose amount in the table is still
\* the old one, and a second budget it can reach is there too.
BatchPartWay ==
    /\ req # <<>>
    /\ Len(req[1].request.items) = 2
    /\ req[1].pc = 2
    /\ \E i \in DOMAIN req[1].dirty : req[1].dirty[i] # budgets[i].amount
    /\ Cardinality(bulk_matches(budgets, req[1].request.user_id, req[1].request.id,
                                req[1].request.items[2])) = 2


\* --------------------------------------------- the group named in the error
\* query.all() of a query without ORDER BY: the rows in any order.
query_all(rows) ==
    {order \in [1..Cardinality(rows) -> rows] :
        \A a, b \in DOMAIN order : a # b => order[a] # order[b]}

\* The group the overlap error of create and update names: overlapping[0].
named_in_error(overlapping) == overlapping[1]

\* The group of a set that was created first.
FirstCreated(S) == CHOOSE g \in S : \A h \in S : g <= h

\* C26: when a create or an update is rejected for overlap, the group the
\* error names is the conflicting group created first, in whatever order
\* the query lists the conflicting groups.
ErrorNamesFirstCreated ==
    /\ \A r \in GroupCreateRequests :
          create_group_outcome(r).result = "overlap" =>
              \A overlapping \in query_all(create_group_outcome(r).overlapping) :
                  named_in_error(overlapping)
                    = FirstCreated(create_group_outcome(r).overlapping)
    /\ \A r \in GroupUpdateRequests :
          update_group_outcome(r).result = "overlap" =>
              \A overlapping \in query_all(update_group_outcome(r).overlapping) :
                  named_in_error(overlapping)
                    = FirstCreated(update_group_outcome(r).overlapping)


\* ------------------------------------------ generations that run together
\* A call of generate_budgets in flight: its request and the budgets its
\* loop has added to the session, which are written at its commit.
GenerationInFlight(r, rows) == [request |-> r, rows |-> rows]

\* The loop of a call runs: its `exists` queries are answered from the
\* table as it is now, which has no budget another call has not committed.
BeginGenerate ==
    \E r \in BulkGenerateRequests :
        /\ Len(req) < MaxInFlight
        /\ generate_outcome(r).result = "generated"
        /\ req' = Append(req, GenerationInFlight(r, CreatedBy(generate_outcome(r))))
        /\ UNCHANGED <<budget_groups, budgets, expenses, resp>>

\* db.commit() of a call: the budgets it added are inserted. The table has
\* no unique constraint on group and category.
CommitGenerate ==
    \E k \in DOMAIN req :
        /\ Len(budgets \o req[k].rows) <= MaxBulkBudgets
        /\ budgets' = budgets \o req[k].rows
        /\ req' = Without(req, k)
        /\ resp' = [op |-> "generate_budgets", result |-> "generated",
                    created |-> Len(req[k].rows)]
        /\ UNCHANGED <<budget_groups, expenses>>

NextGenerateRace ==
    \/ CreateGroupForBulk
    \/ BeginGenerate
    \/ CommitGenerate
    \/ DeleteGeneratedBudget

SpecGenerateRace == Init /\ [][NextGenerateRace]_vars

\* C27: a group has at most one active budget on a category.
OneActiveBudgetPerGroupCategory ==
    \A i, j \in DOMAIN budgets :
        (/\ i # j
         /\ budgets[i].is_active /\ budgets[j].is_active
         /\ budgets[i].budget_group_id # None
         /\ budgets[i].budget_group_id = budgets[j].budget_group_id)
            => budgets[i].category_id # budgets[j].category_id


\* C30: the budget summary of every user on every day is returned without
\* an error, and when the user has no active budget current on that day its
\* totals are 0, its status is on_track, its count is 0 and its list empty.
SummaryWellFormedWithoutBudgets ==
    \A r \in BudgetSummaryRequests :
        \A current_budgets \in get_current_budgets(budgets, r.user_id, r.today) :
            LET summary == get_budget_summary(budgets, current_budgets, expenses)
            IN  /\ summary.error = "none"
                /\ current_budgets = <<>> =>
                      /\ summary.total_budget = 0
                      /\ summary.total_spent = 0
                      /\ summary.total_remaining = 0
                      /\ summary.overall_status = "on_track"
                      /\ summary.budget_count = 0
                      /\ summary.budgets = <<>>

====
